---- MODULE Spec2Model ----
(***************************************************************************)
(* The audio catalog of the Twitter Spaces dashboard: ApiService's loader  *)
(* (loadAudioFiles) and resolvers, in the two revisions the repository     *)
(* holds:                                                                  *)
(*   - src/unnamed/part_001: lists of audio files per key, transcripts;    *)
(*   - src/js/api.js: one audio entry per key, expected-path probe.        *)
(* Both revisions are driven by the same getFiles() responses, so that one *)
(* behaviour shows what each of them makes of a listing.                   *)
(*                                                                         *)
(* A JavaScript string is a sequence of one-character strings.  A property *)
(* map ({}) is a function from its own keys; a read of a key the map does  *)
(* not own falls through to Object.prototype (Get, GetV1).                 *)
(***************************************************************************)
EXTENDS Integers, Sequences, FiniteSets, TLC

VARIABLES
    audioFilesMap,      \* part_001: this.audioFilesMap, own keys -> list of audio infos
    transcriptionMap,   \* part_001: this.transcriptionMap, own keys -> transcription info
    audioFilesMapV1,    \* api.js:   this.audioFilesMap, own keys -> one audio info
    pending,            \* number of loadAudioFiles calls suspended at `await this.getFiles()`
    built,              \* history: what part_001's maps are: "none" (as constructed), the
                        \* "complete" index of builtFrom, or what an "aborted" forEach left
    builtFrom,          \* history: the data part_001's maps were last built from
    obs,                \* what is being handed to a caller: the result of a resolver
                        \* call, or the outcome of a loadAudioFiles call; or NoCall
    dashboard,          \* the Dashboard instance: its revision, lastRefreshTime and
                        \* minRefreshInterval; with it the reading of Date.now() and,
                        \* as history, the readings at which refreshAll went on to
                        \* issue its requests
    inFlight,           \* the getFiles() requests that loadAudioFiles calls wait for,
                        \* in the order they were sent, each with the listing the
                        \* server answers it with; kept only where the order matters
    runs,               \* the calls of Dashboard.refreshAll and App.start made so far:
                        \* where each stands and, as history, what it has done
    app                 \* the App instance and the page it runs in

\* the variables that the operations of ApiService and the resolvers leave alone
others == <<inFlight, runs, app>>

vars == <<audioFilesMap, transcriptionMap, audioFilesMapV1, pending, built,
          builtFrom, obs, dashboard, others>>

---------------------------------------------------------------------------
(* Bounds of the model *)

MaxFiles == 2       \* records in one listing
MaxPending == 2     \* loadAudioFiles calls in flight at once

---------------------------------------------------------------------------
(* Strings *)

UpperCase == <<"A","B","C","D","E","F","G","H","I","J","K","L","M",
               "N","O","P","Q","R","S","T","U","V","W","X","Y","Z">>
LowerCase == <<"a","b","c","d","e","f","g","h","i","j","k","l","m",
               "n","o","p","q","r","s","t","u","v","w","x","y","z">>
Digits == {"0","1","2","3","4","5","6","7","8","9"}

Range(s) == {s[i] : i \in 1..Len(s)}

UpperCaseLetters == Range(UpperCase)
LowerOf == [c \in UpperCaseLetters |-> LowerCase[CHOOSE i \in 1..26 : UpperCase[i] = c]]

\* String.prototype.toLowerCase, one character
LowerChar(c) == IF c \in UpperCaseLetters THEN LowerOf[c] ELSE c

\* String.prototype.toLowerCase
toLowerCase(s) == [i \in 1..Len(s) |-> LowerChar(s[i])]

\* String.prototype.endsWith
endsWith(s, suffix) ==
    /\ Len(suffix) <= Len(s)
    /\ SubSeq(s, Len(s) - Len(suffix) + 1, Len(s)) = suffix

\* String.prototype.indexOf(c) from position i on, counted from 1; 0: none
RECURSIVE indexFrom(_, _, _)
indexFrom(s, c, i) ==
    IF i > Len(s) THEN 0 ELSE IF s[i] = c THEN i ELSE indexFrom(s, c, i + 1)

\* String.prototype.split(sep), sep one character
RECURSIVE split(_, _)
split(s, sep) ==
    LET i == indexFrom(s, sep, 1) IN
    IF i = 0 THEN <<s>>
    ELSE <<SubSeq(s, 1, i - 1)>> \o split(SubSeq(s, i + 1, Len(s)), sep)

\* Array.prototype.join(sep)
RECURSIVE join(_, _)
join(parts, sep) ==
    IF Len(parts) = 0 THEN <<>>
    ELSE IF Len(parts) = 1 THEN parts[1]
    ELSE parts[1] \o <<sep>> \o join(Tail(parts), sep)

\* s.replace(/[chars]/g, '')
RECURSIVE removeChars(_, _)
removeChars(s, chars) ==
    IF s = <<>> THEN <<>>
    ELSE IF Head(s) \in chars THEN removeChars(Tail(s), chars)
    ELSE <<Head(s)>> \o removeChars(Tail(s), chars)

---------------------------------------------------------------------------
(* JavaScript values *)

Null == [t |-> "null"]
Undefined == [t |-> "undefined"]
Str(s) == [t |-> "string", s |-> s]
\* an array that no map holds, and the very array that the audio map holds
\* under `key`: what is done to the one the index holds is done to the index
Arr(items) == [t |-> "array", items |-> items, held |-> FALSE, key |-> <<>>]
Held(items, key) == [t |-> "array", items |-> items, held |-> TRUE, key |-> key]
Obj(v) == [t |-> "object", v |-> v]
\* a function object; length is its declared parameter count
Fn(name, length) == [t |-> "function", name |-> name, length |-> length]

\* ToBoolean
Truthy(v) ==
    CASE v.t = "null" -> FALSE
      [] v.t = "undefined" -> FALSE
      [] v.t = "string" -> v.s # <<>>
      [] OTHER -> TRUE

\* What a call returns: a value, or the exception it raised.
Return(v) == [threw |-> FALSE, error |-> "none", val |-> v]
Throw(e) == [threw |-> TRUE, error |-> e, val |-> Undefined]

\* The members every {} inherits from Object.prototype (those the model's
\* inputs can name), with the functions' length.
ObjectPrototype ==
    [k \in { <<"c","o","n","s","t","r","u","c","t","o","r">>,
             <<"t","o","S","t","r","i","n","g">>,
             <<"v","a","l","u","e","O","f">> }
       |-> IF k = <<"c","o","n","s","t","r","u","c","t","o","r">> THEN Fn("Object", 1)
           ELSE IF k = <<"t","o","S","t","r","i","n","g">> THEN Fn("toString", 0)
           ELSE Fn("valueOf", 0)]

EmptyObject == [k \in {} |-> <<>>]

\* map[key] = v on a {}: creates or overwrites the own property
Put(map, key, v) == [k \in DOMAIN map \cup {key} |-> IF k = key THEN v ELSE map[k]]

\* the prototype chain below the own properties
Inherited(key) ==
    IF key \in DOMAIN ObjectPrototype THEN ObjectPrototype[key] ELSE Undefined

\* this.audioFilesMap[key] in part_001: own properties are arrays
Get(map, key) == IF key \in DOMAIN map THEN Held(map[key], key) ELSE Inherited(key)

\* this.transcriptionMap[key] in part_001, this.audioFilesMap[key] in api.js:
\* own properties are objects
GetV1(map, key) == IF key \in DOMAIN map THEN Obj(map[key]) ELSE Inherited(key)

---------------------------------------------------------------------------
(* Configuration and inputs *)

\* CONFIG.S3_BASE_URL; nothing ever takes the prefix apart, so it is one element
S3_BASE_URL == <<"https://spaces-api-audio-files-985923204742-us-east-2.s3.us-east-2.amazonaws.com/">>

\* the alternatives of /\.(mp3|aac|m4a|mp4)$/i, of /\.(json|csv)$/i and of
\* /\.(mp3|aac|m4a|mp4|json|csv)$/i
AudioExtensions == << <<"m","p","3">>, <<"a","a","c">>, <<"m","4","a">>, <<"m","p","4">> >>
TranscriptExtensions == << <<"j","s","o","n">>, <<"c","s","v">> >>
AllExtensions == AudioExtensions \o TranscriptExtensions

\* api.js: this.supportedFormats
supportedFormats == << <<".","m","p","3">>, <<".","a","a","c">>,
                       <<".","m","4","a">>, <<".","m","p","4">> >>

\* Calendar days as toISOString prints them, consecutive
IsoDates == << <<"2","0","2","5","-","0","5","-","3","1">>,
               <<"2","0","2","5","-","0","6","-","0","1">>,
               <<"2","0","2","5","-","0","6","-","0","2">>,
               <<"2","0","2","5","-","0","6","-","0","3">> >>
D1 == IsoDates[2]
D2 == IsoDates[3]

\* A createdAt string that Date parses: wall-clock hour `hour` of day IsoDates[day]
\* at UTC offset `off` hours; or one it does not parse.
Timestamp(day, hour, off) ==
    [t |-> "timestamp", valid |-> TRUE, day |-> day, hour |-> hour, off |-> off]
InvalidTimestamp ==
    [t |-> "timestamp", valid |-> FALSE, day |-> 0, hour |-> 0, off |-> 0]

\* file.size / file.lastModified absent from the record
Absent == -1

File(name, size) == [name |-> name, size |-> size, lastModified |-> Absent]

idA == <<"a">>
idAT == <<"a","-","t">>
idConstructor == <<"c","o","n","s","t","r","u","c","t","o","r">>

KeyPlain == <<"h","/">> \o D1 \o <<"/","a",".","M","P","3">>             \* h/2025-06-01/a.MP3
KeyUpperHost == <<"H","/">> \o D2 \o <<"/","a","-","t",".","a","a","c">> \* H/2025-06-02/a-t.aac
KeyJson == <<"h","/">> \o D1 \o <<"/","a",".","j","s","o","n">>          \* h/2025-06-01/a.json
KeyCsv == <<"h","/">> \o D2 \o <<"/","a","-","x",".","C","S","V">>       \* h/2025-06-02/a-x.CSV
KeyTwoSegments == <<"h","/","a",".","m","p","3">>                         \* h/a.mp3
KeyText == <<"h","/">> \o D1 \o <<"/","a",".","t","x","t">>              \* h/2025-06-01/a.txt
KeyFourSegments == <<"h","/">> \o D1 \o <<"/","x","/","a",".","m","p","3">> \* h/2025-06-01/x/a.mp3
KeyConstructor == <<"h","/">> \o D1 \o <<"/">> \o idConstructor \o <<".","m","p","3">>
KeySecondPart == <<"H","/">> \o D2 \o <<"/","a","-","z",".","m","p","3">> \* H/2025-06-02/a-z.mp3

\* The records a listing is made of
Files ==
    { File(KeyPlain, 960000), File(KeyUpperHost, Absent), File(KeyJson, 10),
      File(KeyCsv, 20), File(KeyTwoSegments, 5), File(KeyText, 5),
      File(KeyFourSegments, 5), File(KeyConstructor, 5), File(KeySecondPart, 5) }

Listings == UNION {[1..n -> Files] : n \in 0..MaxFiles}

\* The records of the listings against which the expected paths are tried: a
\* file stored where the path without hints points, one stored where the
\* path with hints points, and a transcript
KeySpaces == <<"s","p","a","c","e","s","/">> \o D1 \o <<"/","a",".","m","p","3">> \* spaces/2025-06-01/a.mp3
\* x/y/z.mp3/2025-06-02/a.mp3: the path expected for 'a' under the host hint 'x/y/z.mp3'
HostOfThreeSegments == <<"x","/","y","/","z",".","m","p","3">>
KeyUnderHostPath == HostOfThreeSegments \o <<"/">> \o D2 \o <<"/","a",".","m","p","3">>
PathFiles ==
    { File(KeySpaces, 5), File(KeyUpperHost, Absent), File(KeyJson, 10),
      File(KeyUnderHostPath, 5) }
PathListings == UNION {[1..n -> PathFiles] : n \in 0..MaxFiles}
AllFiles == Files \cup PathFiles

\* What getFiles() resolves with: an object without an array-valued `files`,
\* or one with it
NoFilesField == [hasFiles |-> FALSE, files |-> <<>>]
Responses == {NoFilesField} \cup {[hasFiles |-> TRUE, files |-> l] : l \in Listings}
PathResponses == {[hasFiles |-> TRUE, files |-> l] : l \in PathListings}

\* The arguments the resolvers are called with
ArgIds == {idA, idAT, idConstructor}
ArgHosts == {Null, Str(<<"@","H">>)}
ArgCreatedAt == {Null, InvalidTimestamp, Timestamp(2, 23, -5)}

\* The arguments generateExpectedS3Path is called with: the identifier may be
\* empty or hold a '/', the host may clean to nothing, need every replacement,
\* or be longer than the limit with a dash where the cut falls
idDated == D1 \o <<"/","a">>
HostLong == [i \in 1..51 |-> IF i = 50 THEN "-" ELSE "a"]
PathArgIds == {<<>>, idA, idAT, idDated}
PathArgHosts ==
    { Null, Str(<<"@">>), Str(<<"@","H">>), Str(<<"-","x","-">>), Str(HostLong),
      Str(<<"@","M","y"," ","H","o","s","t","!","!">>), Str(HostOfThreeSegments) }

---------------------------------------------------------------------------
(* part_001: the loader *)

\* the alternative of /\.(e1|e2|...)$/i that matches the end of filename; 0: none
matchExtension(filename, exts) ==
    LET lower == toLowerCase(filename)
        hits == {i \in 1..Len(exts) : endsWith(lower, <<".">> \o exts[i])}
    IN  IF hits = {} THEN 0 ELSE CHOOSE i \in hits : TRUE

\* /\.(e1|e2|...)$/i .test(filename)
testExtension(filename, exts) == matchExtension(filename, exts) # 0

\* filename.replace(/\.(e1|e2|...)$/i, '')
stripExtension(filename, exts) ==
    LET i == matchExtension(filename, exts) IN
    IF i = 0 THEN filename
    ELSE SubSeq(filename, 1, Len(filename) - Len(exts[i]) - 1)

\* variant: return cleanFilename, without the split at '-'
extractWholeName(filename) == stripExtension(filename, AllExtensions)

\* extractSpaceIdFromFilename
extractSpaceIdFromFilename(filename) ==
    split(stripExtension(filename, AllExtensions), "-")[1]

\* `x || null` on a number
orNull(x) == IF x = Absent \/ x = 0 THEN Absent ELSE x

\* audioInfo / transcriptionInfo
fileInfo(file, filename) ==
    [url |-> S3_BASE_URL \o file.name, filename |-> filename, path |-> file.name,
     size |-> orNull(file.size), lastModified |-> orNull(file.lastModified)]

\* variant: list.push(audioInfo) without the `some` test
pushAlways(list, info) == Append(list, info)

\* if (!list.some(existing => existing.url === audioInfo.url)) list.push(audioInfo)
pushUnlessExists(list, info) ==
    IF \E i \in 1..Len(list) : list[i].url = info.url THEN list ELSE Append(list, info)

\* if (!map[key]) map[key] = []; then some/push on map[key].  `some` is a
\* method of arrays only: on anything else the call raises a TypeError.
addAudio(map, key, info) ==
    LET m1 == IF ~Truthy(Get(map, key)) THEN Put(map, key, <<>>) ELSE map
        cur == Get(m1, key)
    IN  IF cur.t # "array"
        THEN [map |-> m1, threw |-> TRUE]
        ELSE [map |-> Put(m1, key, pushUnlessExists(cur.items, info)), threw |-> FALSE]

\* variant: if (!this.transcriptionMap[key]) this.transcriptionMap[key] = transcriptionInfo
setTranscriptionOnce(map, key, info) == IF key \in DOMAIN map THEN map ELSE Put(map, key, info)

\* this.transcriptionMap[key] = transcriptionInfo
setTranscription(map, key, info) == Put(map, key, info)

\* `${hostUsername}/${date}/${spaceId}`
compositeKey(host, date, spaceId) == host \o <<"/">> \o date \o <<"/">> \o spaceId

\* if (parts.length >= 3)
enoughParts(parts) == Len(parts) >= 3

\* variant: if (parts.length >= 2), with the last part as the filename
describeFileOfTwoParts(file) ==
    LET parts == split(file.name, "/") IN
    IF Len(parts) < 2
    THEN [kind |-> "skipped", spaceId |-> <<>>, key2 |-> <<>>, info |-> Absent]
    ELSE
      LET filename == parts[Len(parts)]
          spaceId == extractSpaceIdFromFilename(filename)
      IN  [kind |-> IF testExtension(filename, AudioExtensions) THEN "audio"
                    ELSE IF testExtension(filename, TranscriptExtensions) THEN "transcription"
                    ELSE "skipped",
           spaceId |-> spaceId,
           key2 |-> compositeKey(parts[1], parts[2], spaceId),
           info |-> fileInfo(file, filename)]

\* What the body of data.files.forEach computes from the record alone: whether
\* the key has the parts, what the filename's extension makes it, the space
\* id, the composite key and the info object.
describeFile(file) ==
    LET parts == split(file.name, "/") IN
    IF ~enoughParts(parts)
    THEN [kind |-> "skipped", spaceId |-> <<>>, key2 |-> <<>>, info |-> Absent]
    ELSE
      LET hostUsername == parts[1]
          date == parts[2]
          filename == parts[3]
          spaceId == extractSpaceIdFromFilename(filename)
      IN  [kind |-> IF testExtension(filename, AudioExtensions) THEN "audio"
                    ELSE IF testExtension(filename, TranscriptExtensions) THEN "transcription"
                    ELSE "skipped",
           spaceId |-> spaceId,
           key2 |-> compositeKey(hostUsername, date, spaceId),
           info |-> fileInfo(file, filename)]

\* describeFile, evaluated once for each record
DescribedFiles == [file \in AllFiles |-> describeFile(file)]

\* the body of data.files.forEach, on the maps st.audio and st.trans
processFile(st, file) ==
    LET d == DescribedFiles[file] IN
    IF d.kind = "audio" THEN
        LET r1 == addAudio(st.audio, d.spaceId, d.info) IN
        IF r1.threw THEN [st EXCEPT !.audio = r1.map, !.threw = TRUE]
        ELSE LET r2 == addAudio(r1.map, d.key2, d.info) IN
             [st EXCEPT !.audio = r2.map, !.threw = r2.threw]
    ELSE IF d.kind = "transcription" THEN
        [st EXCEPT !.trans = setTranscription(setTranscription(st.trans, d.spaceId, d.info),
                                              d.key2, d.info)]
    ELSE st

\* data.files.forEach(...): an exception ends the loop
RECURSIVE forEachFile(_, _)
forEachFile(st, files) ==
    IF files = <<>> \/ st.threw THEN st
    ELSE forEachFile(processFile(st, Head(files)), Tail(files))

\* variant: the two assignments are missing
keepMaps(audio, trans) == [audio |-> audio, trans |-> trans, threw |-> FALSE]

\* this.audioFilesMap = {}; this.transcriptionMap = {};
resetMaps(audio, trans) == [audio |-> EmptyObject, trans |-> EmptyObject, threw |-> FALSE]

\* loadAudioFiles from the assignment after the await to its end
rebuild(audio, trans, data) ==
    IF data.hasFiles THEN forEachFile(resetMaps(audio, trans), data.files)
    ELSE resetMaps(audio, trans)

\* Object.keys(map).filter(key => !key.includes('/'))
bareKeys(map) == {key \in DOMAIN map : "/" \notin Range(key)}

\* Object.values(map).reduce((sum, files) => sum + files.length, 0)
RECURSIVE sumLengths(_, _)
sumLengths(map, keys) ==
    IF keys = {} THEN 0
    ELSE LET key == CHOOSE k \in keys : TRUE
         IN  Len(map[key]) + sumLengths(map, keys \ {key})

\* const totalAudioFiles = Object.values(this.audioFilesMap).reduce(...)
totalAudioFiles(audio) == sumLengths(audio, DOMAIN audio)

\* no counts are computed: the listing has no files, or the loop was left
NoCounts == [computed |-> FALSE]

\* the three counts at the end of loadAudioFiles, shown in its messages
summaryCounts(audio, trans) ==
    [computed |-> TRUE,
     spacesWithAudio |-> Cardinality(bareKeys(audio)),
     totalAudioFiles |-> totalAudioFiles(audio),
     spacesWithTranscription |-> Cardinality(bareKeys(trans))]

---------------------------------------------------------------------------
(* part_001: the resolvers *)

\* new Date(createdAt).toISOString().split('T')[0]: the UTC calendar day of the
\* instant; toISOString raises a RangeError on an invalid date
isoDate(createdAt) ==
    IF ~createdAt.valid THEN Throw("RangeError")
    ELSE Return(IsoDates[createdAt.day + ((createdAt.hour - createdAt.off) \div 24)])

\* hostUsername.replace(/[@=]/g, '').toLowerCase()
cleanHostKey(hostUsername) == toLowerCase(removeChars(hostUsername, {"@", "="}))

\* `audioFiles && audioFiles.length > 0`
nonEmpty(v) ==
    /\ Truthy(v)
    /\ CASE v.t = "array" -> Len(v.items) > 0
         [] v.t = "function" -> v.length > 0
         [] OTHER -> FALSE

\* variant: return audioFiles, the array of the map itself
sameArray(v) == IF v.t = "array" THEN Return(v) ELSE Throw("TypeError")

\* [...audioFiles]: a new array of the same elements; only an iterable can
\* be spread
spread(v) == IF v.t = "array" THEN Return(Arr(v.items)) ELSE Throw("TypeError")

\* getAllAudioFilesBySpaceId
getAllAudioFilesBySpaceId(map, spaceId, hostUsername, createdAt) ==
    LET direct == Get(map, spaceId) IN
    IF nonEmpty(direct) THEN spread(direct)
    ELSE IF Truthy(hostUsername) /\ Truthy(createdAt) THEN
        LET date == isoDate(createdAt) IN
        IF date.threw THEN date
        ELSE LET found == Get(map, compositeKey(cleanHostKey(hostUsername.s), date.val, spaceId))
             IN  IF nonEmpty(found) THEN spread(found) ELSE Return(Null)
    ELSE Return(Null)

\* getTranscriptionBySpaceId
getTranscriptionBySpaceId(map, spaceId, hostUsername, createdAt) ==
    LET direct == GetV1(map, spaceId) IN
    IF Truthy(direct) THEN Return(direct)
    ELSE IF Truthy(hostUsername) /\ Truthy(createdAt) THEN
        LET date == isoDate(createdAt) IN
        IF date.threw THEN date
        ELSE LET found == GetV1(map, compositeKey(cleanHostKey(hostUsername.s), date.val, spaceId))
             IN  IF Truthy(found) THEN Return(found) ELSE Return(Null)
    ELSE Return(Null)

---------------------------------------------------------------------------
(* api.js: the loader *)

\* detectAudioFormat: supportedFormats.find(format => lower.endsWith(format)) || null
detectAudioFormat(filename) ==
    LET lowerFilename == toLowerCase(filename)
        hits == {i \in 1..Len(supportedFormats) : endsWith(lowerFilename, supportedFormats[i])}
    IN  IF hits = {} THEN Null
        ELSE Str(supportedFormats[CHOOSE i \in hits : \A j \in hits : i <= j])

\* extractSpaceIdFromFilename of api.js: the first supported format that ends
\* the name is sliced off, then the part before the first dash
extractSpaceIdFromFilenameV1(filename) ==
    LET format == detectAudioFormat(filename)
        clean == IF format.t = "string"
                 THEN SubSeq(filename, 1, Len(filename) - Len(format.s))
                 ELSE filename
    IN  split(clean, "-")[1]

\* { url, format, originalPath }
audioInfoV1(file, format) ==
    [url |-> S3_BASE_URL \o file.name, format |-> format, originalPath |-> file.name]

\* What the body of data.files.forEach in api.js computes from the record alone
describeFileV1(file) ==
    LET parts == split(file.name, "/") IN
    IF ~enoughParts(parts)
    THEN [kind |-> "skipped", spaceId |-> <<>>, key2 |-> <<>>, info |-> Absent]
    ELSE
      LET hostUsername == parts[1]
          date == parts[2]
          filename == parts[3]
          audioFormat == detectAudioFormat(filename)
          spaceId == extractSpaceIdFromFilenameV1(filename)
      IN
      IF ~Truthy(audioFormat)
      THEN [kind |-> "skipped", spaceId |-> <<>>, key2 |-> <<>>, info |-> Absent]
      ELSE [kind |-> "audio", spaceId |-> spaceId,
            key2 |-> compositeKey(hostUsername, date, spaceId),
            info |-> audioInfoV1(file, audioFormat.s)]

\* describeFileV1, evaluated once for each record
DescribedFilesV1 == [file \in AllFiles |-> describeFileV1(file)]

\* the body of data.files.forEach in api.js
processFileV1(map, file) ==
    LET d == DescribedFilesV1[file] IN
    IF d.kind = "audio" THEN Put(Put(map, d.spaceId, d.info), d.key2, d.info)
    ELSE map

RECURSIVE forEachFileV1(_, _)
forEachFileV1(map, files) ==
    IF files = <<>> THEN map
    ELSE forEachFileV1(processFileV1(map, Head(files)), Tail(files))

\* this.audioFilesMap = {};
resetMapV1(map) == EmptyObject

\* api.js loadAudioFiles from the assignment after the await to its end
rebuildV1(map, data) ==
    IF data.hasFiles THEN forEachFileV1(resetMapV1(map), data.files)
    ELSE resetMapV1(map)

---------------------------------------------------------------------------
(* api.js: the resolver *)

\* [a-zA-Z0-9\-_.\/]
PathChars == Range(UpperCase) \cup Range(LowerCase) \cup Digits \cup {"-", "_", ".", "/"}

\* s.replace(/[^a-zA-Z0-9\-_.\/]/g, '-')
replaceOtherChars(s) == [i \in 1..Len(s) |-> IF s[i] \in PathChars THEN s[i] ELSE "-"]

\* s.replace(/-+/g, '-')
RECURSIVE collapseDashes(_)
collapseDashes(s) ==
    IF Len(s) < 2 THEN s
    ELSE IF s[1] = "-" /\ s[2] = "-" THEN collapseDashes(Tail(s))
    ELSE <<Head(s)>> \o collapseDashes(Tail(s))

\* s.replace(/^-+|-+$/g, '')
RECURSIVE trimDashes(_)
trimDashes(s) ==
    IF s = <<>> THEN s
    ELSE IF Head(s) = "-" THEN trimDashes(Tail(s))
    ELSE IF s[Len(s)] = "-" THEN trimDashes(SubSeq(s, 1, Len(s) - 1))
    ELSE s

\* the length .substring(0, 50) cuts the host to
HostLimit == 50

\* s.substring(0, n)
substring0(s, n) == SubSeq(s, 1, IF Len(s) < n THEN Len(s) ELSE n)

\* generateExpectedS3Path
generateExpectedS3Path(spaceId, hostUsername, createdAt, format) ==
    IF spaceId = <<>> THEN Return(<<>>)
    ELSE IF ~Truthy(hostUsername) \/ ~Truthy(createdAt)
    THEN Return(<<"s","p","a","c","e","s","/">> \o spaceId \o format)
    ELSE
      LET cut == substring0(trimDashes(collapseDashes(replaceOtherChars(
                      removeChars(hostUsername.s, {"@"})))), HostLimit)
          cleanHost == IF cut = <<>> THEN <<"u","n","k","n","o","w","n">> ELSE cut
          date == isoDate(createdAt)
      IN  IF date.threw THEN date
          ELSE Return(cleanHost \o <<"/">> \o date.val \o <<"/">> \o spaceId \o format)

\* Method 3: the first supported format, from the i-th on, whose expected url
\* is the url of an entry.  Object.keys lists '' before any composite key, and
\* `if (foundKey)` takes the key '' for no key.
RECURSIVE probeFormats(_, _, _, _, _)
probeFormats(map, spaceId, hostUsername, createdAt, i) ==
    IF i > Len(supportedFormats) THEN Return(Null)
    ELSE
      LET expectedPath == generateExpectedS3Path(spaceId, hostUsername, createdAt,
                                                 supportedFormats[i])
      IN
      IF expectedPath.threw THEN expectedPath
      ELSE
        LET expectedUrl == S3_BASE_URL \o expectedPath.val
            matches == {k \in DOMAIN map : map[k].url = expectedUrl}
        IN  IF matches # {} /\ <<>> \notin matches
            THEN Return(Obj(map[CHOOSE k \in matches : TRUE]))
            ELSE probeFormats(map, spaceId, hostUsername, createdAt, i + 1)

\* variant: Method 3 without `if (hostUsername && createdAt)` around it
getAudioUrlProbingAlways(map, spaceId, hostUsername, createdAt) ==
    LET direct == GetV1(map, spaceId) IN
    IF Truthy(direct) THEN Return(direct)
    ELSE IF Truthy(hostUsername) /\ Truthy(createdAt) THEN
        LET date == isoDate(createdAt) IN
        IF date.threw THEN date
        ELSE LET found == GetV1(map, compositeKey(cleanHostKey(hostUsername.s), date.val, spaceId))
             IN  IF Truthy(found) THEN Return(found)
                 ELSE probeFormats(map, spaceId, hostUsername, createdAt, 1)
    ELSE probeFormats(map, spaceId, hostUsername, createdAt, 1)

\* getAudioUrlBySpaceId of api.js
getAudioUrlBySpaceId(map, spaceId, hostUsername, createdAt) ==
    LET direct == GetV1(map, spaceId) IN
    IF Truthy(direct) THEN Return(direct)
    ELSE IF Truthy(hostUsername) /\ Truthy(createdAt) THEN
        LET date == isoDate(createdAt) IN
        IF date.threw THEN date
        ELSE LET found == GetV1(map, compositeKey(cleanHostKey(hostUsername.s), date.val, spaceId))
             IN  IF Truthy(found) THEN Return(found)
                 ELSE probeFormats(map, spaceId, hostUsername, createdAt, 1)
    ELSE Return(Null)

---------------------------------------------------------------------------
(* The state machine *)

NoCall == [fn |-> "none"]

\* a resolver call and what it returned
Call(fn, spaceId, hostUsername, createdAt, out) ==
    [fn |-> fn, spaceId |-> spaceId, hostUsername |-> hostUsername,
     createdAt |-> createdAt, out |-> out]

\* a loadAudioFiles call settling: what its getFiles() did (fetch) and delivered
\* (data), what the call does to its caller in part_001 (out) and in api.js
\* (outV1), and (history) whether the rebuild discarded a key that the index
\* held before; a rejected fetch delivers no data, written NoFilesField
Settle(fetch, data, out, outV1, discarded, counts) ==
    [fn |-> "loadAudioFiles", fetch |-> fetch, data |-> data, out |-> out, outV1 |-> outV1,
     discarded |-> discarded, counts |-> counts]

\* The revisions of Dashboard: refreshAll of dashboard.js:936 and of
\* part_003:485 is rate limited, refreshAll of part_004:750 is not
RateLimited == "dashboard.js"
Simplified == "part_004"
Revisions == {RateLimited, Simplified}

\* Readings of Date.now(), in milliseconds
StartTime == 50000
TimeStep == 5000
MaxTime == 75000
Readings == {StartTime + k * TimeStep : k \in 0..((MaxTime - StartTime) \div TimeStep)}

\* new Dashboard(): part_004 has neither lastRefreshTime nor minRefreshInterval
Dashboard(revision) ==
    [revision |-> revision,
     lastRefreshTime |-> IF revision = RateLimited THEN 0 ELSE Absent,
     minRefreshInterval |-> IF revision = RateLimited THEN 10000 ELSE Absent,
     clock |-> StartTime,
     requested |-> <<>>]

\* new ApiService()
InitApiService ==
    /\ audioFilesMap = EmptyObject
    /\ transcriptionMap = EmptyObject
    /\ audioFilesMapV1 = EmptyObject
    /\ pending = 0
    /\ built = "none"
    /\ builtFrom = NoFilesField
    /\ obs = NoCall
    /\ inFlight = <<>>
    /\ runs = <<>>

\* The revisions of App: part_006 starts on DOMContentLoaded and on 'load',
\* app.js on DOMContentLoaded and, while dashboard is undefined, every 100 ms
WithLoadHandler == "part_006"
WithRetry == "app.js"
AppRevisions == {WithLoadHandler, WithRetry}

\* new App() in a page whose document.readyState is readyState, before init()
\* has run; setups counts the executions of setupEventListeners
App(revision, readyState, dashboardDefined) ==
    [revision |-> revision,
     isInitialized |-> FALSE,
     phase |-> "constructor",
     readyState |-> readyState,
     dashboardDefined |-> dashboardDefined,
     onDOMContentLoaded |-> FALSE,
     retryTimer |-> FALSE,
     setups |-> 0]

Init ==
    /\ InitApiService
    /\ dashboard = Dashboard(RateLimited)
    /\ app = App(WithRetry, "complete", TRUE)

\* loadAudioFiles up to `await this.getFiles()`: the request is sent, the maps
\* are not touched
loadAudioFiles_await ==
    /\ obs = NoCall
    /\ pending < MaxPending
    /\ pending' = pending + 1
    /\ UNCHANGED <<audioFilesMap, transcriptionMap, audioFilesMapV1, built, builtFrom, obs>>

loadAudioFiles ==
    /\ loadAudioFiles_await
    /\ UNCHANGED <<dashboard, others>>

\* variant: the maps are reset before the await, so a rejected fetch finds
\* them empty
loadAudioFiles_catch_afterReset ==
    /\ obs = NoCall
    /\ pending > 0
    /\ pending' = pending - 1
    /\ audioFilesMap' = EmptyObject
    /\ transcriptionMap' = EmptyObject
    /\ audioFilesMapV1' = EmptyObject
    /\ built' = "none"
    /\ builtFrom' = NoFilesField
    /\ obs' = Settle("rejected", NoFilesField, Throw("HTTP"), Throw("HTTP"), FALSE, NoCounts)
    /\ UNCHANGED <<dashboard, others>>

\* getFiles() rejects: the catch block shows the message and rethrows
loadAudioFiles_rethrows ==
    /\ obs = NoCall
    /\ pending > 0
    /\ pending' = pending - 1
    /\ obs' = Settle("rejected", NoFilesField, Throw("HTTP"), Throw("HTTP"), FALSE, NoCounts)
    /\ UNCHANGED <<audioFilesMap, transcriptionMap, audioFilesMapV1, built, builtFrom>>

loadAudioFiles_catch ==
    /\ loadAudioFiles_rethrows
    /\ UNCHANGED <<dashboard, others>>

\* getFiles() resolves with data: the rest of the try block runs without
\* yielding; an exception raised in the loop goes through the catch block
loadAudioFiles_rest(data) ==
    /\ obs = NoCall
    /\ pending > 0
    /\ pending' = pending - 1
    /\ LET r == rebuild(audioFilesMap, transcriptionMap, data)
           v1 == rebuildV1(audioFilesMapV1, data)
           \* an aborted forEach that leaves the maps as they were
           kept == r.threw /\ r.audio = audioFilesMap /\ r.trans = transcriptionMap
       IN  /\ audioFilesMap' = r.audio
           /\ transcriptionMap' = r.trans
           /\ audioFilesMapV1' = v1
           /\ built' = IF ~r.threw THEN "complete" ELSE IF kept THEN built ELSE "aborted"
           /\ builtFrom' = IF kept THEN builtFrom ELSE data
           /\ obs' = Settle("resolved", data,
                            IF r.threw THEN Throw("TypeError") ELSE Return(Undefined),
                            Return(Undefined),
                            \/ \E k \in DOMAIN audioFilesMap : k \notin DOMAIN r.audio
                            \/ \E k \in DOMAIN transcriptionMap : k \notin DOMAIN r.trans,
                            IF data.hasFiles /\ ~r.threw THEN summaryCounts(r.audio, r.trans)
                            ELSE NoCounts)

\* getFiles() resolves with data: the rest of the try block runs without
\* yielding; an exception raised in the loop goes through the catch block
loadAudioFiles_resume(data) ==
    /\ loadAudioFiles_rest(data)
    /\ UNCHANGED <<dashboard, others>>

\* A resolver call runs to completion on the index as it is
call_getAllAudioFilesBySpaceId(spaceId, hostUsername, createdAt) ==
    /\ obs = NoCall
    /\ obs' = Call("getAllAudioFilesBySpaceId", spaceId, hostUsername, createdAt,
                   getAllAudioFilesBySpaceId(audioFilesMap, spaceId, hostUsername, createdAt))
    /\ UNCHANGED <<audioFilesMap, transcriptionMap, audioFilesMapV1, pending, built,
                   builtFrom, dashboard, others>>

call_getTranscriptionBySpaceId(spaceId, hostUsername, createdAt) ==
    /\ obs = NoCall
    /\ obs' = Call("getTranscriptionBySpaceId", spaceId, hostUsername, createdAt,
                   getTranscriptionBySpaceId(transcriptionMap, spaceId, hostUsername, createdAt))
    /\ UNCHANGED <<audioFilesMap, transcriptionMap, audioFilesMapV1, pending, built,
                   builtFrom, dashboard, others>>

call_getAudioUrlBySpaceId(spaceId, hostUsername, createdAt) ==
    /\ obs = NoCall
    /\ obs' = Call("getAudioUrlBySpaceId", spaceId, hostUsername, createdAt,
                   getAudioUrlBySpaceId(audioFilesMapV1, spaceId, hostUsername, createdAt))
    /\ UNCHANGED <<audioFilesMap, transcriptionMap, audioFilesMapV1, pending, built,
                   builtFrom, dashboard, others>>

\* the caller takes what it was handed; the event loop goes on
returned ==
    /\ obs # NoCall
    /\ obs' = NoCall
    /\ UNCHANGED <<audioFilesMap, transcriptionMap, audioFilesMapV1, pending, built,
                   builtFrom, dashboard, others>>

Next ==
    \/ loadAudioFiles
    \/ loadAudioFiles_catch
    \/ \E data \in Responses : loadAudioFiles_resume(data)
    \/ \E spaceId \in ArgIds, hostUsername \in ArgHosts, createdAt \in ArgCreatedAt :
          \/ call_getAllAudioFilesBySpaceId(spaceId, hostUsername, createdAt)
          \/ call_getTranscriptionBySpaceId(spaceId, hostUsername, createdAt)
          \/ call_getAudioUrlBySpaceId(spaceId, hostUsername, createdAt)
    \/ returned

Spec == Init /\ [][Next]_vars

\* generateExpectedS3Path is public: the dashboard calls it to show where a
\* file was expected
call_generateExpectedS3Path(spaceId, hostUsername, createdAt, format) ==
    /\ obs = NoCall
    /\ obs' = [fn |-> "generateExpectedS3Path", spaceId |-> spaceId,
               hostUsername |-> hostUsername, createdAt |-> createdAt, format |-> format,
               out |-> generateExpectedS3Path(spaceId, hostUsername, createdAt, format)]
    /\ UNCHANGED <<audioFilesMap, transcriptionMap, audioFilesMapV1, pending, built,
                   builtFrom, dashboard, others>>

\* The caller of getAllAudioFilesBySpaceId empties the list it was handed
\* (list.length = 0): the array is the caller's to change, and the index
\* changes with it where the list is the array that the index holds
caller_emptiesList ==
    /\ obs.fn = "getAllAudioFilesBySpaceId"
    /\ ~obs.out.threw
    /\ obs.out.val.t = "array"
    /\ obs.out.val.items # <<>>
    /\ obs' = [obs EXCEPT !.out.val.items = <<>>]
    /\ audioFilesMap' = IF obs.out.val.held THEN Put(audioFilesMap, obs.out.val.key, <<>>)
                        ELSE audioFilesMap
    /\ UNCHANGED <<transcriptionMap, audioFilesMapV1, pending, built, builtFrom, dashboard, others>>

\* The expected paths, and every resolver on the indexes of a few listings
NextPath ==
    \/ loadAudioFiles
    \/ \E data \in PathResponses : loadAudioFiles_resume(data)
    \/ \E spaceId \in PathArgIds, hostUsername \in PathArgHosts, createdAt \in ArgCreatedAt :
          \/ call_getAllAudioFilesBySpaceId(spaceId, hostUsername, createdAt)
          \/ call_getTranscriptionBySpaceId(spaceId, hostUsername, createdAt)
          \/ call_getAudioUrlBySpaceId(spaceId, hostUsername, createdAt)
          \/ \E i \in 1..Len(supportedFormats) :
                call_generateExpectedS3Path(spaceId, hostUsername, createdAt,
                                            supportedFormats[i])
    \/ caller_emptiesList
    \/ returned

SpecPath == Init /\ [][NextPath]_vars

---------------------------------------------------------------------------
(* The catalog as the specification words it *)

\* the filename of a key: everything after its second '/'
filenameOfKey(key) ==
    LET parts == split(key, "/") IN join(SubSeq(parts, 3, Len(parts)), "/")

\* the identifier derived from a key: its filename without the recognized
\* extension, up to the first '-'
identifierOfKey(key) ==
    split(stripExtension(filenameOfKey(key), AllExtensions), "-")[1]

\* the key has at least three segments and ends in one of exts, in any case
recognizedKey(key, exts) ==
    /\ Len(split(key, "/")) >= 3
    /\ \E i \in 1..Len(exts) : endsWith(toLowerCase(key), <<".">> \o exts[i])

\* a loadAudioFiles call has just settled on a delivered listing
settledOnListing ==
    /\ obs.fn = "loadAudioFiles"
    /\ obs.fetch = "resolved"
    /\ obs.data.hasFiles

\* a resolver of part_001 has just been called
resolverCalled == obs.fn \in {"getAllAudioFilesBySpaceId", "getTranscriptionBySpaceId"}

---------------------------------------------------------------------------
(* Claims *)

\* C1: once a listing of one record, whose key has at least three segments and
\* an audio extension, is ingested, resolving the identifier derived from the
\* key returns one asset, and its url is the base URL followed by the key.
C1_OneRecordResolves ==
    (settledOnListing /\ Len(obs.data.files) = 1
        /\ recognizedKey(obs.data.files[1].name, AudioExtensions))
    => LET key == obs.data.files[1].name
           out == getAllAudioFilesBySpaceId(audioFilesMap, identifierOfKey(key), Null, Null)
       IN  /\ ~obs.out.threw
           /\ ~out.threw
           /\ out.val.t = "array"
           /\ Len(out.val.items) = 1
           /\ out.val.items[1].url = S3_BASE_URL \o key

\* C2: when the fetch fails, loadAudioFiles reports failure to its caller and
\* leaves the audio map and the transcript map exactly as they were.
C2_FailedFetchKeepsIndex ==
    [][(obs'.fn = "loadAudioFiles" /\ obs.fn = "none" /\ obs'.fetch = "rejected")
       => /\ obs'.out.threw
          /\ obs'.outV1.threw
          /\ audioFilesMap' = audioFilesMap
          /\ transcriptionMap' = transcriptionMap
          /\ audioFilesMapV1' = audioFilesMapV1]_vars

\* a fetch has just failed on an index that holds audio and a transcript
C2_Witness ==
    /\ obs.fn = "loadAudioFiles"
    /\ obs.fetch = "rejected"
    /\ obs.out.threw
    /\ idA \in DOMAIN audioFilesMap
    /\ idA \in DOMAIN transcriptionMap

\* C3: a resolver call finds maps that are the complete index of one listing,
\* the one they were built from, never a cleared or partly populated index.
C3_ResolverSeesCompleteIndex ==
    resolverCalled
    => LET whole == rebuild(EmptyObject, EmptyObject, builtFrom)
       IN  /\ ~whole.threw
           /\ audioFilesMap = whole.audio
           /\ transcriptionMap = whole.trans

\* C4: a resolver call never raises, whatever the index and the hints are.
C4_ResolversNeverRaise ==
    (resolverCalled \/ obs.fn = "getAudioUrlBySpaceId") => ~obs.out.threw

\* C5: no list of the audio map holds two assets with the same url.
C5_NoDuplicateUrl ==
    \A k \in DOMAIN audioFilesMap :
        \A i, j \in 1..Len(audioFilesMap[k]) :
            audioFilesMap[k][i].url = audioFilesMap[k][j].url => i = j

\* a listing that repeats an audio record has been indexed
C5_Witness ==
    /\ built = "complete"
    /\ builtFrom.hasFiles
    /\ Len(builtFrom.files) = 2
    /\ builtFrom.files[1] = builtFrom.files[2]
    /\ DescribedFiles[builtFrom.files[1]].kind = "audio"
    /\ Len(audioFilesMap[DescribedFiles[builtFrom.files[1]].spaceId]) = 1

\* C6: after a rebuild that succeeds, the index is the one the same listing
\* gives from empty maps: nothing of the previous index survives.
C6_RebuildStartsFromEmpty ==
    (obs.fn = "loadAudioFiles" /\ obs.fetch = "resolved")
    => /\ ~obs.out.threw
          => LET fresh == rebuild(EmptyObject, EmptyObject, obs.data)
             IN  audioFilesMap = fresh.audio /\ transcriptionMap = fresh.trans
       /\ ~obs.outV1.threw
          => audioFilesMapV1 = rebuildV1(EmptyObject, obs.data)

\* a rebuild has just succeeded and dropped a key of the previous index
C6_Witness ==
    /\ obs.fn = "loadAudioFiles"
    /\ obs.fetch = "resolved"
    /\ ~obs.out.threw
    /\ obs.discarded

\* the host hints that equal the host segment `host` up to letter case
hostHintsFor(host) == {h \in {<<"h">>, <<"H">>} : toLowerCase(h) = toLowerCase(host)}

\* the creation times whose UTC date is the date segment `date`
createdAtFor(date) ==
    {c \in {Timestamp(2, 8, 0), Timestamp(3, 8, 0), Timestamp(2, 23, -5)} :
        isoDate(c).val = date}

\* C7: for an indexed file with host segment H and date segment D, looking up
\* the composite key made of a host hint equal to H up to letter case, of a
\* creation time whose UTC date is D and of the file's identifier finds the file.
C7_CompositeKeyFindsFile ==
    built = "complete"
    => \A n \in 1..Len(builtFrom.files) :
         LET key == builtFrom.files[n].name
             parts == split(key, "/")
         IN  (Len(parts) = 3 /\ recognizedKey(key, AudioExtensions))
             => \A h \in hostHintsFor(parts[1]), c \in createdAtFor(parts[2]) :
                  LET found == Get(audioFilesMap,
                                   compositeKey(cleanHostKey(h), isoDate(c).val,
                                                identifierOfKey(key)))
                  IN  /\ found.t = "array"
                      /\ \E i \in 1..Len(found.items) :
                            found.items[i].url = S3_BASE_URL \o key

\* the transcript records of `files` whose identifier is spaceId, by position
transcriptsOf(files, spaceId) ==
    {n \in 1..Len(files) :
        /\ recognizedKey(files[n].name, TranscriptExtensions)
        /\ Len(split(files[n].name, "/")) = 3
        /\ identifierOfKey(files[n].name) = spaceId}

\* the largest member of a set of positions
lastOf(positions) == CHOOSE n \in positions : \A m \in positions : m <= n

\* C8: when the listing holds transcripts for an identifier, asking for the
\* identifier's transcript gives the one that comes last in the listing.
C8_LastTranscriptWins ==
    (obs.fn = "getTranscriptionBySpaceId" /\ built = "complete"
        /\ transcriptsOf(builtFrom.files, obs.spaceId) # {})
    => /\ ~obs.out.threw
       /\ obs.out.val.t = "object"
       /\ obs.out.val.v.path =
            builtFrom.files[lastOf(transcriptsOf(builtFrom.files, obs.spaceId))].name

\* the csv transcript came first, the json one last, and the json one is returned
C8_Witness ==
    /\ obs.fn = "getTranscriptionBySpaceId"
    /\ built = "complete"
    /\ builtFrom.files = <<File(KeyCsv, 20), File(KeyJson, 10)>>
    /\ obs.spaceId = idA
    /\ ~obs.out.threw
    /\ obs.out.val.v.path = KeyJson

\* the record is an audio file of shape host/date/filename for identifier spaceId
audioFileOf(file, spaceId) ==
    /\ Len(split(file.name, "/")) = 3
    /\ recognizedKey(file.name, AudioExtensions)
    /\ identifierOfKey(file.name) = spaceId

\* the urls of the audio files of spaceId in `files`, each once, in the order
\* of first appearance
RECURSIVE audioUrlsOf(_, _)
audioUrlsOf(files, spaceId) ==
    IF files = <<>> THEN <<>>
    ELSE LET before == audioUrlsOf(SubSeq(files, 1, Len(files) - 1), spaceId)
             file == files[Len(files)]
             url == S3_BASE_URL \o file.name
         IN  IF audioFileOf(file, spaceId) /\ ~\E i \in 1..Len(before) : before[i] = url
             THEN Append(before, url)
             ELSE before

\* the urls that a resolver's result carries
urlsIn(val) ==
    CASE val.t = "array" -> [i \in 1..Len(val.items) |-> val.items[i].url]
      [] val.t = "object" -> <<val.v.url>>
      [] OTHER -> <<>>

\* C9: after a rebuild, resolving an identifier gives every audio file of the
\* listing with that identifier, each url once, in the order of first
\* appearance, in the revision that keeps lists and in the one that keeps a
\* single entry.
C9_AudioAccumulates ==
    (settledOnListing /\ ~obs.out.threw)
    => \A n \in 1..Len(obs.data.files) :
         \A spaceId \in {identifierOfKey(obs.data.files[n].name)} :
            audioFileOf(obs.data.files[n], spaceId)
            => LET expected == audioUrlsOf(obs.data.files, spaceId)
                   out == getAllAudioFilesBySpaceId(audioFilesMap, spaceId, Null, Null)
                   outV1 == getAudioUrlBySpaceId(audioFilesMapV1, spaceId, Null, Null)
               IN  /\ ~out.threw /\ urlsIn(out.val) = expected
                   /\ ~outV1.threw /\ urlsIn(outV1.val) = expected

\* the record is one the loader is to skip: fewer than three segments, or a
\* filename without a recognized extension
skippedRecord(file) ==
    \/ Len(split(file.name, "/")) < 3
    \/ /\ ~recognizedKey(file.name, AudioExtensions)
       /\ ~recognizedKey(file.name, TranscriptExtensions)

\* the response without its n-th record
withoutRecord(data, n) ==
    [data EXCEPT !.files = SubSeq(data.files, 1, n - 1) \o
                           SubSeq(data.files, n + 1, Len(data.files))]

C11_ExtraSegmentsAreRejoined ==
    (settledOnListing /\ ~obs.out.threw)
    => \A n \in 1..Len(obs.data.files) :
         LET key == obs.data.files[n].name IN
         (Len(split(key, "/")) > 3 /\ recognizedKey(key, AudioExtensions))
         => /\ LET found == Get(audioFilesMap, identifierOfKey(key))
               IN  /\ found.t = "array"
                   /\ \E i \in 1..Len(found.items) :
                         /\ found.items[i].url = S3_BASE_URL \o key
                         /\ found.items[i].filename = filenameOfKey(key)
            /\ \E k \in DOMAIN audioFilesMapV1 : audioFilesMapV1[k].url = S3_BASE_URL \o key

\* the keys of a map of lists under which an asset with this url is held
keysHolding(map, url) ==
    {k \in DOMAIN map : \E i \in 1..Len(map[k]) : map[k][i].url = url}

\* the keys of a map of single entries whose entry has this url
keysWith(map, url) == {k \in DOMAIN map : map[k].url = url}

\* C12: a file host/date/ab-cd.ext is indexed under the identifier 'ab', its
\* name without the extension cut before the first '-', and under
\* host/date/ab, and under no other key; a direct lookup of 'ab-cd' finds nothing.
C12_IdentifierStopsAtDash ==
    (settledOnListing /\ ~obs.out.threw)
    => \A n \in 1..Len(obs.data.files) :
         LET key == obs.data.files[n].name
             parts == split(key, "/")
             url == S3_BASE_URL \o key
             name == stripExtension(filenameOfKey(key), AllExtensions)
             ab == split(name, "-")[1]
             both == {ab, compositeKey(parts[1], parts[2], ab)}
         IN  /\ (Len(parts) = 3 /\ recognizedKey(key, AudioExtensions))
                => /\ keysHolding(audioFilesMap, url) = both
                   /\ keysWith(audioFilesMapV1, url) \subseteq both
                   /\ both \subseteq DOMAIN audioFilesMapV1
                   /\ name # ab
                      => /\ getAllAudioFilesBySpaceId(audioFilesMap, name, Null, Null)
                              = Return(Null)
                         /\ getAudioUrlBySpaceId(audioFilesMapV1, name, Null, Null)
                              = Return(Null)
             /\ (Len(parts) = 3 /\ recognizedKey(key, TranscriptExtensions))
                => /\ keysWith(transcriptionMap, url) \subseteq both
                   /\ both \subseteq DOMAIN transcriptionMap
                   /\ name # ab
                      => getTranscriptionBySpaceId(transcriptionMap, name, Null, Null)
                           = Return(Null)

\* H/2025-06-02/a-t.aac has been indexed under 'a' and 'H/2025-06-02/a' only
C12_Witness ==
    /\ settledOnListing
    /\ ~obs.out.threw
    /\ obs.data.files = <<File(KeyUpperHost, Absent)>>
    /\ DOMAIN audioFilesMap = {idA, compositeKey(<<"H">>, D2, idA)}
    /\ DOMAIN audioFilesMapV1 = DOMAIN audioFilesMap
    /\ idAT \notin DOMAIN audioFilesMap

\* the present host hints and the parsable creation times of the calls
presentHosts == {h \in ArgHosts : Truthy(h)}
parsableTimes == {c \in ArgCreatedAt : Truthy(c) /\ c.valid}

\* the url expected for spaceId with the i-th supported format
expectedUrl(spaceId, host, createdAt, i) ==
    S3_BASE_URL \o generateExpectedS3Path(spaceId, host, createdAt, supportedFormats[i]).val

\* the supported formats for which `files` holds a file at the expected path
listedFormats(files, spaceId, host, createdAt) ==
    {i \in 1..Len(supportedFormats) :
        \E n \in 1..Len(files) :
            S3_BASE_URL \o files[n].name = expectedUrl(spaceId, host, createdAt, i)}

\* C13: in the resolver with the probe, when the direct and the composite
\* lookup miss and both hints are present, the result is the asset at the
\* expected path of the first supported format for which the listing holds
\* such a file, and 'not found' only when it holds one for no format.
C13_ProbeFindsListedFile ==
    settledOnListing
    => \A spaceId \in ArgIds, host \in presentHosts, createdAt \in parsableTimes :
         LET direct == GetV1(audioFilesMapV1, spaceId)
             composite == GetV1(audioFilesMapV1,
                                compositeKey(cleanHostKey(host.s), isoDate(createdAt).val,
                                             spaceId))
             listed == listedFormats(obs.data.files, spaceId, host, createdAt)
             out == getAudioUrlBySpaceId(audioFilesMapV1, spaceId, host, createdAt)
         IN  (~Truthy(direct) /\ ~Truthy(composite))
             => /\ ~out.threw
                /\ IF listed = {} THEN out.val = Null
                   ELSE /\ out.val.t = "object"
                        /\ out.val.v.url =
                             expectedUrl(spaceId, host, createdAt,
                                         CHOOSE i \in listed : \A j \in listed : i <= j)

\* the characters [A-Za-z0-9-_./]
allowedInHost == Range(UpperCase) \cup Range(LowerCase) \cup Digits \cup {"-", "_", ".", "/"}

\* nothing of the host is left once '@' is removed, the other characters are
\* made dashes and the dashes are trimmed
leavesNothing(host) ==
    \A i \in 1..Len(host) : host[i] = "-" \/ host[i] \notin allowedInHost

\* C14: for a non-empty identifier, any host hint and a valid createdAt hint,
\* the host segment of the expected path has only characters of
\* [A-Za-z0-9-_./], no two dashes in a row, no dash at either end and at most
\* 50 characters, and is 'unknown' when cleaning the host leaves nothing.
C14_HostSegmentIsClean ==
    (obs.fn = "generateExpectedS3Path" /\ obs.spaceId # <<>>
        /\ Truthy(obs.createdAt) /\ obs.createdAt.valid)
    => /\ ~obs.out.threw
       /\ LET segment == split(obs.out.val, "/")[1] IN
          /\ segment # <<>>
          /\ Range(segment) \subseteq allowedInHost
          /\ \A i \in 1..Len(segment) - 1 : ~(segment[i] = "-" /\ segment[i + 1] = "-")
          /\ segment[1] # "-"
          /\ segment[Len(segment)] # "-"
          /\ Len(segment) <= 50
          /\ (Truthy(obs.hostUsername) /\ leavesNothing(obs.hostUsername.s))
             => segment = <<"u","n","k","n","o","w","n">>

\* 'spaces/<identifier><extension>'
spacesPath(spaceId, format) == <<"s","p","a","c","e","s","/">> \o spaceId \o format

\* a hint is missing
hintMissing == ~Truthy(obs.hostUsername) \/ ~Truthy(obs.createdAt)

\* without both hints the resolver of api.js answers from the direct lookup alone
answersFromDirectLookup ==
    (obs.fn = "getAudioUrlBySpaceId" /\ hintMissing)
    => LET direct == GetV1(audioFilesMapV1, obs.spaceId)
       IN  obs.out = IF Truthy(direct) THEN Return(direct) ELSE Return(Null)

\* C15 as stated: the expected path is 'spaces/<identifier><extension>'
\* whenever the host hint or the createdAt hint is missing, and the resolver
\* does not look that path up.
C15_SpacesPathWhenHintMissing ==
    /\ (obs.fn = "generateExpectedS3Path" /\ hintMissing)
       => obs.out = Return(spacesPath(obs.spaceId, obs.format))
    /\ answersFromDirectLookup

\* C15, amended: for a non-empty identifier the expected path is
\* 'spaces/<identifier><extension>' whenever the host hint or the createdAt
\* hint is missing, for the empty identifier it is the empty string, and the
\* resolver does not look that path up: the probe runs only with both hints.
C15_SpacesPathForIdentifier ==
    /\ (obs.fn = "generateExpectedS3Path" /\ hintMissing)
       => obs.out = IF obs.spaceId = <<>> THEN Return(<<>>)
                    ELSE Return(spacesPath(obs.spaceId, obs.format))
    /\ answersFromDirectLookup

\* the index holds the file at spaces/2025-06-01/a.mp3, and a call without
\* hints for the identifier '2025-06-01/a' has returned null
C15_Witness ==
    /\ obs.fn = "getAudioUrlBySpaceId"
    /\ obs.spaceId = idDated
    /\ obs.hostUsername = Null
    /\ obs.createdAt = Null
    /\ obs.out = Return(Null)
    /\ \E k \in DOMAIN audioFilesMapV1 :
          audioFilesMapV1[k].url = S3_BASE_URL \o spacesPath(idDated, supportedFormats[1])

\* the call that `call` records, made on the given maps
sameCallOn(call, audio, trans, audioV1) ==
    CASE call.fn = "getAllAudioFilesBySpaceId" ->
            getAllAudioFilesBySpaceId(audio, call.spaceId, call.hostUsername, call.createdAt)
      [] call.fn = "getTranscriptionBySpaceId" ->
            getTranscriptionBySpaceId(trans, call.spaceId, call.hostUsername, call.createdAt)
      [] call.fn = "getAudioUrlBySpaceId" ->
            getAudioUrlBySpaceId(audioV1, call.spaceId, call.hostUsername, call.createdAt)
      [] call.fn = "generateExpectedS3Path" ->
            generateExpectedS3Path(call.spaceId, call.hostUsername, call.createdAt, call.format)

\* C16: a call of a resolver or of generateExpectedS3Path leaves every map, and
\* so every stored asset, as it was, and the same call on the index it leaves
\* returns an equal result; a caller that changes the list it got from
\* getAllAudioFilesBySpaceId does not change the index.
C16_ResolversArePure ==
    [][/\ (obs = NoCall /\ obs' # NoCall /\ obs'.fn # "loadAudioFiles")
          => /\ audioFilesMap' = audioFilesMap
             /\ transcriptionMap' = transcriptionMap
             /\ audioFilesMapV1' = audioFilesMapV1
             /\ obs'.out = sameCallOn(obs', audioFilesMap', transcriptionMap', audioFilesMapV1')
       /\ (obs.fn = "getAllAudioFilesBySpaceId" /\ obs' # NoCall)
          => /\ audioFilesMap' = audioFilesMap
             /\ transcriptionMap' = transcriptionMap
             /\ audioFilesMapV1' = audioFilesMapV1]_vars

\* the caller has emptied the list it got, and the index still holds the assets
C16_Witness ==
    /\ obs.fn = "getAllAudioFilesBySpaceId"
    /\ ~obs.out.threw
    /\ obs.out.val.t = "array"
    /\ obs.out.val.items = <<>>
    /\ obs.spaceId \in DOMAIN audioFilesMap
    /\ Len(audioFilesMap[obs.spaceId]) = 2

---------------------------------------------------------------------------
(* part_004: the estimated durations that the dashboard shows *)

\* `${n}` for a natural number
DigitChars == <<"0","1","2","3","4","5","6","7","8","9">>
RECURSIVE toString(_)
toString(n) ==
    IF n < 10 THEN <<DigitChars[n + 1]>>
    ELSE toString(n \div 10) \o <<DigitChars[(n % 10) + 1]>>

\* a number of seconds that is a quotient of two integers, kept exact
Seconds(num, den) == [num |-> num, den |-> den]

\* Math.floor(durationSeconds / 60)
wholeMinutes(durationSeconds) == durationSeconds.num \div (durationSeconds.den * 60)

\* formatDurationFromSeconds
formatDurationFromSeconds(durationSeconds) ==
    LET minutes == wholeMinutes(durationSeconds)
        hours == minutes \div 60
        remainingMinutes == minutes % 60
    IN  IF hours > 0
        THEN <<"~">> \o toString(hours) \o <<"h"," ">> \o toString(remainingMinutes) \o <<"m">>
        ELSE <<"~">> \o toString(minutes) \o <<"m">>

\* the default of the parameter bitrateKbps
DefaultBitrate == 128

\* variant: the bitrate taken in units of 1024 bits per second
secondsOfKibibits(fileSizeBytes, bitrateKbps) == Seconds(fileSizeBytes * 8, bitrateKbps * 1024)

\* (fileSizeBytes * 8) / (bitrateKbps * 1000)
secondsOf(fileSizeBytes, bitrateKbps) == Seconds(fileSizeBytes * 8, bitrateKbps * 1000)

\* calculateAudioDuration: the value of durationSeconds and what is returned;
\* an argument that is left out is Absent
calculateAudioDuration(fileSizeBytes, bitrateKbps) ==
    IF fileSizeBytes = Absent \/ fileSizeBytes <= 0
    THEN [durationSeconds |-> Undefined, out |-> Null]
    ELSE LET durationSeconds ==
                 secondsOf(fileSizeBytes,
                           IF bitrateKbps = Absent THEN DefaultBitrate ELSE bitrateKbps)
         IN  [durationSeconds |-> durationSeconds,
              out |-> Str(formatDurationFromSeconds(durationSeconds))]

\* The sizes of files and the bitrates that durations are asked for
ArgSizes == {Absent, 0, 1, 959999, 960000, 1000000, 1920000, 57600000, 115200000}
ArgBitrates == {Absent, 64, 128, 320}

call_calculateAudioDuration(fileSizeBytes, bitrateKbps) ==
    /\ obs = NoCall
    /\ LET r == calculateAudioDuration(fileSizeBytes, bitrateKbps)
       IN  obs' = [fn |-> "calculateAudioDuration", fileSizeBytes |-> fileSizeBytes,
                   bitrateKbps |-> bitrateKbps, durationSeconds |-> r.durationSeconds,
                   out |-> r.out]
    /\ UNCHANGED <<audioFilesMap, transcriptionMap, audioFilesMapV1, pending, built,
                   builtFrom, dashboard, others>>

\* the bound on the number of audio files of one space
MaxAssets == 3

\* the bitrate that the total duration of several files is computed with
TotalBitrate == 128

\* variant: a file without a size is passed over, hasAllSizes stays as it was
addDurationOfSized(acc, file) ==
    IF file.size # Absent /\ file.size # 0
    THEN [acc EXCEPT !.totalDuration =
              Seconds(@.num + secondsOf(file.size, TotalBitrate).num, @.den)]
    ELSE acc

\* the body of audioFiles.forEach in createSpaceItemHTML
addDuration(acc, file) ==
    IF file.size # Absent /\ file.size # 0
    THEN [acc EXCEPT !.totalDuration =
              Seconds(@.num + secondsOf(file.size, TotalBitrate).num, @.den)]
    ELSE [acc EXCEPT !.hasAllSizes = FALSE]

\* let totalDuration = 0; let hasAllSizes = true; audioFiles.forEach(...)
RECURSIVE sumDurations(_, _)
sumDurations(acc, audioFiles) ==
    IF audioFiles = <<>> THEN acc
    ELSE sumDurations(addDuration(acc, Head(audioFiles)), Tail(audioFiles))

\* ` <U+2022> ${duration}`; the bullet character is written "*" here
bullet(text) == <<" ", "*", " ">> \o text

\* createSpaceItemHTML, as far as the duration in the audio badge goes: the
\* locals of the branch for several files and the text put after the badge
createSpaceItemHTML(audioFiles) ==
    LET none == [files |-> 0, hasAllSizes |-> TRUE,
                 totalDuration |-> Seconds(0, TotalBitrate * 1000), durationText |-> <<>>]
    IN
    IF ~nonEmpty(audioFiles) THEN none
    ELSE IF Len(audioFiles.items) = 1 THEN
        LET file == audioFiles.items[1]
            duration == IF file.size # Absent /\ file.size # 0
                        THEN calculateAudioDuration(file.size, Absent).out
                        ELSE Null
        IN  [none EXCEPT !.files = 1,
                         !.durationText = IF Truthy(duration) THEN bullet(duration.s)
                                          ELSE <<>>]
    ELSE
        LET sum == sumDurations(none, audioFiles.items)
        IN  [sum EXCEPT !.files = Len(audioFiles.items),
                        !.durationText =
                            IF sum.hasAllSizes /\ sum.totalDuration.num > 0
                            THEN bullet(formatDurationFromSeconds(sum.totalDuration))
                            ELSE <<>>]

\* The audio files of a space as getAllAudioFilesBySpaceId hands them over
AssetSizes == {Absent, 1, 960000, 1000000, 1920000, 28800000, 57600000}
Assets == {fileInfo(File(KeyPlain, size), <<"a",".","M","P","3">>) : size \in AssetSizes}
ArgAudioFiles == {Null} \cup {Arr(l) : l \in UNION {[1..n -> Assets] : n \in 1..MaxAssets}}

call_createSpaceItemHTML(audioFiles) ==
    /\ obs = NoCall
    /\ obs' = [fn |-> "createSpaceItemHTML", audioFiles |-> audioFiles,
               out |-> createSpaceItemHTML(audioFiles)]
    /\ UNCHANGED <<audioFilesMap, transcriptionMap, audioFilesMapV1, pending, built,
                   builtFrom, dashboard, others>>

NextDuration ==
    \/ \E fileSizeBytes \in ArgSizes, bitrateKbps \in ArgBitrates :
          call_calculateAudioDuration(fileSizeBytes, bitrateKbps)
    \/ \E audioFiles \in ArgAudioFiles : call_createSpaceItemHTML(audioFiles)
    \/ returned

SpecDuration == Init /\ [][NextDuration]_vars

---------------------------------------------------------------------------
(* Claims on the durations *)

\* C17: for a positive size, the duration that calculateAudioDuration computes
\* is (size * 8) / (bitrate * 1000) seconds, the bitrate being 128 when none
\* is given; 1,920,000 bytes at 128 kbps are 120 seconds, shown as ~2m.
C17_DurationFormula ==
    (obs.fn = "calculateAudioDuration" /\ obs.fileSizeBytes # Absent /\ obs.fileSizeBytes > 0)
    => LET bitrate == IF obs.bitrateKbps = Absent THEN 128 ELSE obs.bitrateKbps
           seconds == obs.durationSeconds
       IN  /\ seconds = Seconds(obs.fileSizeBytes * 8, bitrate * 1000)
           /\ obs.out = Str(formatDurationFromSeconds(seconds))
           /\ (obs.fileSizeBytes = 1920000 /\ bitrate = 128)
              => /\ seconds.num = 120 * seconds.den
                 /\ obs.out = Str(<<"~","2","m">>)

\* 1,920,000 bytes with no bitrate given have been shown as ~2m
C17_Witness ==
    /\ obs.fn = "calculateAudioDuration"
    /\ obs.fileSizeBytes = 1920000
    /\ obs.bitrateKbps = Absent
    /\ obs.out = Str(<<"~","2","m">>)

\* the sizes that the files of a list report, and their sum
sizesOf(audioFiles) == [i \in 1..Len(audioFiles.items) |-> audioFiles.items[i].size]

RECURSIVE sumOf(_)
sumOf(sizes) == IF sizes = <<>> THEN 0 ELSE Head(sizes) + sumOf(Tail(sizes))

severalFiles ==
    /\ obs.fn = "createSpaceItemHTML"
    /\ nonEmpty(obs.audioFiles)
    /\ Len(obs.audioFiles.items) >= 2

\* C18: for a space with several audio files, the total duration shown is the
\* one of the sum of all sizes at 128 kbps when every file reports a size
\* (960,000 + 960,000 bytes: 120 seconds); when a file reports no size, the
\* total is marked as not covering all files and no total is shown at all.
C18_TotalOfSeveralFiles ==
    severalFiles
    => LET sizes == sizesOf(obs.audioFiles)
           out == obs.out
       IN  IF \A i \in 1..Len(sizes) : sizes[i] # Absent
           THEN /\ out.hasAllSizes
                /\ out.totalDuration = Seconds(sumOf(sizes) * 8, 128 * 1000)
                /\ out.durationText = bullet(formatDurationFromSeconds(out.totalDuration))
                /\ sizes = <<960000, 960000>>
                   => /\ out.totalDuration.num = 120 * out.totalDuration.den
                      /\ out.durationText = <<" ", "*", " ", "~", "2", "m">>
           ELSE /\ ~out.hasAllSizes
                /\ out.durationText = <<>>

\* of two files, one of 960,000 bytes and one without a size, the 60 seconds
\* of the first have been added up and no total has been shown
C18_Witness ==
    /\ severalFiles
    /\ sizesOf(obs.audioFiles) = <<960000, Absent>>
    /\ obs.out.totalDuration.num = 60 * obs.out.totalDuration.den
    /\ ~obs.out.hasAllSizes
    /\ obs.out.durationText = <<>>

---------------------------------------------------------------------------
(* Claims on the summary counts *)

\* the records of a listing whose key is recognized with one of exts
recognizedFiles(data, exts) ==
    {i \in 1..Len(data.files) : recognizedKey(data.files[i].name, exts)}

\* every key of the listing has exactly three segments, none named constructor
plainListing(data) ==
    \A i \in 1..Len(data.files) :
        /\ Len(split(data.files[i].name, "/")) = 3
        /\ identifierOfKey(data.files[i].name) # idConstructor

\* the counts have been computed on a listing of three-segment keys
countedOnPlainListing ==
    /\ settledOnListing
    /\ obs.counts.computed
    /\ plainListing(obs.data)

\* C19: the counts of a rebuild are the number of distinct identifiers with
\* audio, the number of distinct audio files of the listing, and the number of
\* distinct identifiers with a transcript.
C19_SummaryCounts ==
    countedOnPlainListing
    => LET files == obs.data.files
           audio == recognizedFiles(obs.data, AudioExtensions)
           trans == recognizedFiles(obs.data, TranscriptExtensions)
       IN  /\ obs.counts.spacesWithAudio
                = Cardinality({identifierOfKey(files[i].name) : i \in audio})
           /\ obs.counts.totalAudioFiles
                = Cardinality({files[i].name : i \in audio})
           /\ obs.counts.spacesWithTranscription
                = Cardinality({identifierOfKey(files[i].name) : i \in trans})

---------------------------------------------------------------------------
(* Dashboard.refreshAll: dashboard.js:936 and part_003:485, part_004:750 *)

\* the bound on the refreshAll calls that go on to issue requests
MaxRequested == 2

\* What getFiles() resolves with while the dashboard is refreshed
RefreshListings == {<<>>, <<File(KeyPlain, 960000)>>, <<File(KeyJson, 10)>>}
RefreshResponses == {[hasFiles |-> TRUE, files |-> l] : l \in RefreshListings}

\* Date.now() reads another value than before; the clock of the browser may
\* be set forward or back
clockChanges(reading) ==
    /\ obs = NoCall
    /\ reading # dashboard.clock
    /\ dashboard' = [dashboard EXCEPT !.clock = reading]
    /\ UNCHANGED <<audioFilesMap, transcriptionMap, audioFilesMapV1, pending, built,
                   builtFrom, obs, others>>

\* what refreshAll hands to its caller: nothing; the record keeps the reading
\* of Date.now() it was called at and whether it went on to api.loadAudioFiles()
Refreshed(now, requests) == [fn |-> "refreshAll", now |-> now, requests |-> requests]

\* from `Utils.showMessage('Refreshing all data...')` to the first await: the
\* call of api.loadAudioFiles(), which runs up to its `await this.getFiles()`
issueRequests(now) ==
    /\ pending < MaxPending
    /\ Len(dashboard.requested) < MaxRequested
    /\ pending' = pending + 1
    /\ obs' = Refreshed(now, TRUE)
    /\ UNCHANGED <<audioFilesMap, transcriptionMap, audioFilesMapV1, built, builtFrom, others>>

\* Dashboard.refreshAll of dashboard.js:936 and part_003:485, up to its first
\* await
refreshAll ==
    /\ obs = NoCall
    /\ dashboard.revision = RateLimited
    /\ LET now == dashboard.clock
       IN  IF now - dashboard.lastRefreshTime < dashboard.minRefreshInterval
           THEN /\ obs' = Refreshed(now, FALSE)
                /\ UNCHANGED <<audioFilesMap, transcriptionMap, audioFilesMapV1, pending,
                               built, builtFrom, dashboard, others>>
           ELSE /\ issueRequests(now)
                /\ dashboard' = [dashboard EXCEPT !.lastRefreshTime = now,
                                                  !.requested = Append(@, now)]

\* Dashboard.refreshAll of part_004:750, up to its first await: "removed
\* auto-refresh throttling, simplified"
refreshAll_simplified ==
    /\ obs = NoCall
    /\ dashboard.revision = Simplified
    /\ issueRequests(dashboard.clock)
    /\ dashboard' = [dashboard EXCEPT !.requested = Append(@, dashboard.clock)]

InitRefresh ==
    /\ InitApiService
    /\ app = App(WithRetry, "complete", TRUE)
    /\ dashboard \in {Dashboard(revision) : revision \in Revisions}

NextRefresh ==
    \/ \E reading \in Readings : clockChanges(reading)
    \/ refreshAll
    \/ refreshAll_simplified
    \/ loadAudioFiles_catch
    \/ \E data \in RefreshResponses : loadAudioFiles_resume(data)
    \/ returned

SpecRefresh == InitRefresh /\ [][NextRefresh]_vars

---------------------------------------------------------------------------
(* Claims on refreshAll *)

\* refreshAll has been called in this step
refreshAllCalled == obs = NoCall /\ obs'.fn = "refreshAll"

\* the call comes less than 10000 ms after one that went on to issue requests
arrivesSooner ==
    \E i \in 1..Len(dashboard.requested) : obs'.now - dashboard.requested[i] < 10000

\* C20: a refreshAll call that comes less than minRefreshInterval (10000 ms)
\* after one that went on to issue requests issues no request and changes
\* neither the index nor lastRefreshTime, whether the earlier refresh is still
\* in flight, has failed or is done; so any two calls that issue requests are
\* at least 10000 ms apart.
C20_RefreshIsRateLimited ==
    [][ (refreshAllCalled /\ arrivesSooner)
        => /\ ~obs'.requests
           /\ UNCHANGED <<audioFilesMap, transcriptionMap, audioFilesMapV1, pending,
                          dashboard>> ]_vars

---------------------------------------------------------------------------
(* Claims on the two lookup tiers of part_001 *)

\* the keys of a map that are composite, and the identifier such a key ends in
compositeKeys(map) == {key \in DOMAIN map : "/" \in Range(key)}
bareOf(key) == LET parts == split(key, "/") IN parts[Len(parts)]

\* every composite key of the two maps has its bare identifier beside it
bareBesideComposite ==
    /\ \A key \in compositeKeys(audioFilesMap) :
          /\ bareOf(key) \in DOMAIN audioFilesMap
          /\ audioFilesMap[bareOf(key)] # <<>>
    /\ \A key \in compositeKeys(transcriptionMap) :
          bareOf(key) \in DOMAIN transcriptionMap

\* what the call that has just returned gives when it is made without hints
withoutHints ==
    IF obs.fn = "getAllAudioFilesBySpaceId"
    THEN getAllAudioFilesBySpaceId(audioFilesMap, obs.spaceId, Null, Null)
    ELSE getTranscriptionBySpaceId(transcriptionMap, obs.spaceId, Null, Null)

\* C25: in every index a composite key has the bare identifier beside it with
\* a non-empty entry, so the composite lookup gives nothing that the direct
\* lookup missed: a resolver of part_001 gives the same with hints as without.
C25_HintsMakeNoDifference ==
    /\ bareBesideComposite
    /\ resolverCalled => obs.out = withoutHints

---------------------------------------------------------------------------
(* Claims on the probe of api.js *)

\* the call is one of getAudioUrlBySpaceId for an identifier without '-' and '/'
plainIdentifierLookedUp ==
    /\ obs.fn = "getAudioUrlBySpaceId"
    /\ "-" \notin Range(obs.spaceId)
    /\ "/" \notin Range(obs.spaceId)

\* both hints are there and the date can be computed
hintsUsable ==
    /\ Truthy(obs.hostUsername)
    /\ Truthy(obs.createdAt)
    /\ ~isoDate(obs.createdAt).threw

\* the direct and the composite lookup both miss, and Method 3 finds an entry
foundByProbe ==
    /\ hintsUsable
    /\ ~Truthy(GetV1(audioFilesMapV1, obs.spaceId))
    /\ ~Truthy(GetV1(audioFilesMapV1,
                     compositeKey(cleanHostKey(obs.hostUsername.s),
                                  isoDate(obs.createdAt).val, obs.spaceId)))
    /\ probeFormats(audioFilesMapV1, obs.spaceId, obs.hostUsername, obs.createdAt, 1).val
         # Null

\* the keys whose entry has the url expected for the call, with some format
keysAtExpectedUrl ==
    {key \in DOMAIN audioFilesMapV1 :
        \E i \in 1..Len(supportedFormats) :
            audioFilesMapV1[key].url
              = expectedUrl(obs.spaceId, obs.hostUsername, obs.createdAt, i)}

\* C26: in the resolver of api.js, for an identifier that contains neither '-'
\* nor '/', the probe never finds an entry: an entry whose url is an expected
\* url is the one under the bare identifier, which the direct lookup returns.
C26_ProbeFindsNothingNew ==
    plainIdentifierLookedUp
    => /\ ~foundByProbe
       /\ hintsUsable
          => \A key \in keysAtExpectedUrl :
                /\ GetV1(audioFilesMapV1, obs.spaceId) = Obj(audioFilesMapV1[key])
                /\ obs.out = Return(Obj(audioFilesMapV1[key]))

---------------------------------------------------------------------------
(* Refreshes that overlap: the getFiles() requests and their answers *)

\* the bound on the getFiles() requests sent in one behaviour
MaxSent == 3

\* What the server answers a request with
OverlapListings ==
    {<<>>, <<File(KeyPlain, 960000)>>, <<File(KeyJson, 10)>>,
     <<File(KeyPlain, 960000), File(KeyCsv, 20)>>}
OverlapResponses == {[hasFiles |-> TRUE, files |-> l] : l \in OverlapListings}

\* a request, the listing it is answered with, whether the answer has come,
\* and whether the request was sent while another was waiting
Request(data, overlaps) == [data |-> data, settled |-> FALSE, overlaps |-> overlaps]

\* Dashboard.refreshAll of part_004 reaching `await api.loadAudioFiles()`,
\* which sends the request and waits for `data`
refreshAll_sends(data) ==
    /\ Len(inFlight) < MaxSent
    /\ loadAudioFiles_await
    /\ inFlight' = Append(inFlight, Request(data, pending > 0))
    /\ UNCHANGED <<dashboard, runs, app>>

\* the answer to the i-th request comes: its loadAudioFiles call goes on
getFiles_resolves(i) ==
    /\ ~inFlight[i].settled
    /\ loadAudioFiles_rest(inFlight[i].data)
    /\ inFlight' = [inFlight EXCEPT ![i].settled = TRUE]
    /\ UNCHANGED <<dashboard, runs, app>>

NextOverlap ==
    \/ \E data \in OverlapResponses : refreshAll_sends(data)
    \/ \E i \in 1..Len(inFlight) : getFiles_resolves(i)
    \/ returned

SpecOverlap == Init /\ [][NextOverlap]_vars

---------------------------------------------------------------------------
(* Claims on overlapping refreshes *)

\* every request has been answered, and the last one was sent while another
\* was waiting
overlappedAndSettled ==
    /\ Len(inFlight) >= 2
    /\ \A i \in 1..Len(inFlight) : inFlight[i].settled
    /\ inFlight[Len(inFlight)].overlaps

\* the index that a rebuild from data gives
indexOf(data) == rebuild(EmptyObject, EmptyObject, data)

\* C27: when refreshes overlap, then after all of them have settled the index
\* is the one built from the listing that the request sent last was answered
\* with, in whatever order the answers came.
C27_LastStartedRefreshWins ==
    overlappedAndSettled
    => LET last == indexOf(inFlight[Len(inFlight)].data)
       IN  /\ audioFilesMap = last.audio
           /\ transcriptionMap = last.trans

---------------------------------------------------------------------------
(* Claims on a response without files *)

\* a loadAudioFiles call has just settled on a response without a files array
settledWithoutFiles ==
    /\ obs.fn = "loadAudioFiles"
    /\ obs.fetch = "resolved"
    /\ ~obs.data.hasFiles

\* the index is the one left by a rebuild from a response without a files array
builtWithoutFiles == built = "complete" /\ ~builtFrom.hasFiles

\* C28: when getFiles() resolves with a response that has no files array, the
\* rebuild leaves both maps empty and the call ends without an error; every
\* resolve call made on that index returns 'not found'.
C28_NoFilesGivesEmptyIndex ==
    /\ settledWithoutFiles
       => /\ audioFilesMap = EmptyObject
          /\ transcriptionMap = EmptyObject
          /\ obs.out = Return(Undefined)
    /\ (resolverCalled /\ builtWithoutFiles) => obs.out = Return(Null)

---------------------------------------------------------------------------
(* Dashboard.refreshAll of part_004 and App.start: what one call does, await
   by await *)

\* the bound on the calls that get as far as api.loadAudioFiles()
MaxRuns == 2

\* the loads that follow the rebuild, in groups that are awaited together:
\* refreshAll awaits loadHealth, loadStats and loadSpaces one after the other,
\* App.start awaits Promise.all of them (part_006 has no loadHealth)
loadsOf(kind, revision) ==
    IF kind = "refreshAll" THEN << {"loadHealth"}, {"loadStats"}, {"loadSpaces"} >>
    ELSE IF revision = WithRetry THEN << {"loadHealth", "loadStats", "loadSpaces"} >>
    ELSE << {"loadStats", "loadSpaces"} >>

\* a call that has reached `await api.loadAudioFiles()`
Run(kind) ==
    [kind |-> kind, pc |-> "loadAudioFiles", group |-> 0, waiting |-> {},
     rebuilt |-> FALSE, failed |-> FALSE, requested |-> {}, message |-> FALSE,
     threw |-> FALSE]

\* the run goes on to its next group of loads, or ends
proceed(run) ==
    LET groups == loadsOf(run.kind, app.revision) IN
    IF run.group < Len(groups)
    THEN [run EXCEPT !.pc = "loads", !.group = @ + 1, !.waiting = groups[run.group + 1],
                     !.requested = @ \cup groups[run.group + 1]]
    ELSE [run EXCEPT !.pc = "done", !.waiting = {}]

\* variant: no try block around the awaits
withoutCatch(run) == [run EXCEPT !.pc = "done", !.failed = TRUE, !.threw = TRUE]

\* catch (error) { Utils.showMessage(`Failed to ...: ${error.message}`); }
catchBlock(run) == [run EXCEPT !.pc = "done", !.failed = TRUE, !.message = TRUE]

\* Dashboard.refreshAll of part_004 up to `await api.loadAudioFiles()`
refreshAll_called ==
    /\ app.phase = "running"
    /\ Len(runs) < MaxRuns
    /\ loadAudioFiles_await
    /\ runs' = Append(runs, Run("refreshAll"))
    /\ UNCHANGED <<dashboard, inFlight, app>>

\* App.start up to its first await, or to its return; a is the App as the
\* caller leaves it
start(a) ==
    IF a.isInitialized
    THEN /\ app' = a
         /\ UNCHANGED <<pending, runs>>
    ELSE IF a.revision = WithRetry /\ ~a.dashboardDefined
    THEN /\ app' = [a EXCEPT !.retryTimer = TRUE]
         /\ UNCHANGED <<pending, runs>>
    ELSE /\ Len(runs) < MaxRuns
         /\ pending < MaxPending
         /\ pending' = pending + 1
         /\ runs' = Append(runs, Run("start"))
         /\ app' = a

\* what the triggers of App.start leave alone
startFrame ==
    UNCHANGED <<audioFilesMap, transcriptionMap, audioFilesMapV1, built, builtFrom, obs,
                dashboard, inFlight>>

\* App.init, called by the constructor
App_init ==
    /\ obs = NoCall
    /\ app.phase = "constructor"
    /\ IF app.readyState = "loading"
       THEN /\ app' = [app EXCEPT !.phase = "running", !.onDOMContentLoaded = TRUE]
            /\ UNCHANGED <<pending, runs>>
       ELSE start([app EXCEPT !.phase = "running"])
    /\ startFrame

\* the document has been parsed: the listener of App.init calls start
DOMContentLoaded ==
    /\ obs = NoCall
    /\ app.phase = "running"
    /\ app.readyState = "loading"
    /\ IF app.onDOMContentLoaded
       THEN start([app EXCEPT !.readyState = "interactive"])
       ELSE /\ app' = [app EXCEPT !.readyState = "interactive"]
            /\ UNCHANGED <<pending, runs>>
    /\ startFrame

\* the 'load' event of the window: the handler at the end of part_006 calls
\* app.start() if app.isInitialized is false; app.js has no such handler
window_load ==
    /\ obs = NoCall
    /\ app.phase = "running"
    /\ app.readyState = "interactive"
    /\ IF app.revision = WithLoadHandler /\ ~app.isInitialized
       THEN start([app EXCEPT !.readyState = "complete"])
       ELSE /\ app' = [app EXCEPT !.readyState = "complete"]
            /\ UNCHANGED <<pending, runs>>
    /\ startFrame

\* setTimeout(() => this.start(), 100) of app.js fires
retry_fires ==
    /\ obs = NoCall
    /\ app.retryTimer
    /\ start([app EXCEPT !.retryTimer = FALSE])
    /\ startFrame

\* the script that defines `dashboard` has run
dashboard_defined ==
    /\ obs = NoCall
    /\ ~app.dashboardDefined
    /\ app' = [app EXCEPT !.dashboardDefined = TRUE]
    /\ UNCHANGED <<pending, runs>>
    /\ startFrame

\* the end of App.start: this.setupEventListeners(); this.isInitialized = true;
started(a) == [a EXCEPT !.setups = @ + 1, !.isInitialized = TRUE]

\* a run has got to its end: App.start then sets the listeners up
appAfter(run) == IF run.kind = "start" /\ run.pc = "done" /\ ~run.failed THEN started(app) ELSE app

\* api.loadAudioFiles() of the r-th run goes on with data: the run goes on
\* to its loads, or to its catch block when the rebuild raises
run_rebuilds(r, data) ==
    /\ runs[r].pc = "loadAudioFiles"
    /\ loadAudioFiles_rest(data)
    /\ LET run == IF rebuild(audioFilesMap, transcriptionMap, data).threw
                  THEN catchBlock(runs[r])
                  ELSE proceed([runs[r] EXCEPT !.rebuilt = TRUE])
       IN  /\ runs' = [runs EXCEPT ![r] = run]
           /\ app' = appAfter(run)
    /\ UNCHANGED <<dashboard, inFlight>>

\* getFiles() of the r-th run rejects: loadAudioFiles rethrows into the
\* catch block of the run
run_fetchFails(r) ==
    /\ runs[r].pc = "loadAudioFiles"
    /\ loadAudioFiles_rethrows
    /\ runs' = [runs EXCEPT ![r] = catchBlock(@)]
    /\ UNCHANGED <<dashboard, inFlight, app>>

\* one of the loads the r-th run waits for settles; loadHealth, loadStats and
\* loadSpaces catch their own errors
run_loadSettles(r, load) ==
    /\ obs = NoCall
    /\ runs[r].pc = "loads"
    /\ load \in runs[r].waiting
    /\ LET left == [runs[r] EXCEPT !.waiting = @ \ {load}]
           run == IF left.waiting = {} THEN proceed(left) ELSE left
       IN  /\ runs' = [runs EXCEPT ![r] = run]
           /\ app' = appAfter(run)
    /\ UNCHANGED <<audioFilesMap, transcriptionMap, audioFilesMapV1, pending, built,
                   builtFrom, obs, dashboard, inFlight>>

\* What getFiles() resolves with while the page starts
StartListings == {<<>>, <<File(KeyPlain, 960000)>>, <<File(KeyConstructor, 5)>>}
StartResponses == {[hasFiles |-> TRUE, files |-> l] : l \in StartListings}

ReadyStates == {"loading", "interactive", "complete"}

InitStart ==
    /\ InitApiService
    /\ dashboard = Dashboard(Simplified)
    /\ app \in {App(revision, readyState, dashboardDefined) :
                  revision \in AppRevisions, readyState \in ReadyStates,
                  dashboardDefined \in BOOLEAN}

NextStart ==
    \/ App_init
    \/ DOMContentLoaded
    \/ window_load
    \/ retry_fires
    \/ dashboard_defined
    \/ refreshAll_called
    \/ \E r \in 1..Len(runs) :
          \/ \E data \in StartResponses : run_rebuilds(r, data)
          \/ run_fetchFails(r)
          \/ \E load \in runs[r].waiting : run_loadSettles(r, load)
    \/ returned

SpecStart == InitStart /\ [][NextStart]_vars

---------------------------------------------------------------------------
(* Claims on refreshAll and App.start *)

\* C21: in every call of refreshAll and of App.start, loadSpaces (and every
\* other load) is called only after the rebuild of that call has completed;
\* when the rebuild fails, the call loads nothing more, shows the failure
\* message and raises nothing to its caller.
C21_LoadsFollowTheRebuild ==
    \A r \in 1..Len(runs) :
        /\ runs[r].requested # {} => (runs[r].rebuilt /\ built # "none")
        /\ runs[r].failed
           => /\ runs[r].requested = {}
              /\ runs[r].message
              /\ ~runs[r].threw
              /\ runs[r].pc = "done"

\* one call has requested the spaces after its rebuild, another has failed
\* to rebuild and has shown its message
C21_Witness ==
    /\ \E r \in 1..Len(runs) : "loadSpaces" \in runs[r].requested /\ runs[r].rebuilt
    /\ \E r \in 1..Len(runs) : runs[r].failed /\ runs[r].message /\ runs[r].kind = "refreshAll"
    /\ \E r \in 1..Len(runs) : runs[r].kind = "start"

\* the calls of App.start that went on to load the data
startRuns == {r \in 1..Len(runs) : runs[r].kind = "start"}

\* C29: whatever the order of the triggers of App.start, the initial load runs
\* at most once and setupEventListeners is executed at most once, and
\* isInitialized is true only when the rebuild and the loads of a call of
\* App.start have settled.
C29_StartRunsOnce ==
    /\ Cardinality(startRuns) <= 1
    /\ app.setups <= 1
    /\ app.isInitialized
       => \E r \in startRuns :
             /\ runs[r].pc = "done"
             /\ runs[r].rebuilt
             /\ runs[r].waiting = {}

---------------------------------------------------------------------------
(* The pages of spaces (part_004): loadSpaces starts the list afresh,
   loadMoreSpaces appends the next page when the user scrolls near the
   bottom. Both wait for api.getSpaces, and the calls in `runs` are theirs. *)

\* the variables of ApiService and of the resolver calls
service == <<audioFilesMap, transcriptionMap, audioFilesMapV1, pending, built,
             builtFrom, obs>>

MaxCalls == 4

\* the infinite scroll state of new Dashboard(), with the element that init()
\* looks up; resets counts, as history, the resets that loadSpaces has made
Pagination(spacesContent) ==
    [allSpaces |-> <<>>,
     currentOffset |-> 0,
     isLoading |-> FALSE,
     hasMore |-> TRUE,
     pageSize |-> 20,
     spacesContent |-> spacesContent,
     resets |-> 0]

\* the lengths of data.data that the server answers with
PageLengths == {0, 1, 20}

\* the space at `index` of the server's list, as answered to a request that was
\* sent after `epoch` resets
Space(epoch, index) == [index |-> index, requestedAfter |-> epoch]

\* data.data of the answer to a request for the page at `offset`
Page(epoch, offset, length) == [i \in 1..length |-> Space(epoch, offset + i - 1)]

\* a call of loadSpaces or loadMoreSpaces waiting at `await api.getSpaces(filters)`
SpacesCall(kind, offset, epoch) ==
    [kind |-> kind, pc |-> "getSpaces", offset |-> offset, epoch |-> epoch,
     length |-> Absent, settled |-> "no"]

\* the call has settled: with the length of the page it received, or by failing
settle(call, length, how) == [call EXCEPT !.pc = "done", !.length = length, !.settled = how]

\* loadSpaces up to its await: nothing without the element, else the reset
loadSpaces_called ==
    /\ Len(runs) < MaxCalls
    /\ IF ~dashboard.spacesContent
       THEN UNCHANGED <<dashboard, runs>>
       ELSE /\ dashboard' = [dashboard EXCEPT !.currentOffset = 0,
                                              !.hasMore = TRUE,
                                              !.allSpaces = <<>>,
                                              !.resets = @ + 1]
            /\ runs' = Append(runs, SpacesCall("loadSpaces", 0, dashboard.resets + 1))
    /\ UNCHANGED <<service, inFlight, app>>

\* loadSpaces after its await: the page replaces the list
loadSpaces_resolves(r, length, more) ==
    /\ runs[r].kind = "loadSpaces"
    /\ runs[r].pc = "getSpaces"
    /\ dashboard' = [dashboard EXCEPT
                        !.allSpaces = Page(runs[r].epoch, runs[r].offset, length),
                        !.currentOffset = dashboard.pageSize,
                        !.hasMore = more]
    /\ runs' = [runs EXCEPT ![r] = settle(@, length, "resolved")]
    /\ UNCHANGED <<service, inFlight, app>>

\* loadSpaces when getSpaces fails: the catch block writes the error in the page
loadSpaces_rejects(r) ==
    /\ runs[r].kind = "loadSpaces"
    /\ runs[r].pc = "getSpaces"
    /\ runs' = [runs EXCEPT ![r] = settle(@, Absent, "rejected")]
    /\ UNCHANGED <<service, dashboard, inFlight, app>>

\* the variant that requests the next page whatever isLoading and hasMore are
loadMoreSpaces_unguarded ==
    /\ dashboard' = [dashboard EXCEPT !.isLoading = TRUE]
    /\ runs' = Append(runs, SpacesCall("loadMoreSpaces", dashboard.currentOffset,
                                       dashboard.resets))

\* loadMoreSpaces up to its await
loadMoreSpaces ==
    IF dashboard.isLoading \/ ~dashboard.hasMore
    THEN UNCHANGED <<dashboard, runs>>
    ELSE /\ dashboard' = [dashboard EXCEPT !.isLoading = TRUE]
         /\ runs' = Append(runs, SpacesCall("loadMoreSpaces", dashboard.currentOffset,
                                            dashboard.resets))

loadMoreSpaces_called ==
    /\ Len(runs) < MaxCalls
    /\ loadMoreSpaces
    /\ UNCHANGED <<service, inFlight, app>>

\* the debounced scroll handler of setupInfiniteScroll, when it runs
scroll(nearBottom) ==
    /\ Len(runs) < MaxCalls
    /\ IF dashboard.isLoading \/ ~dashboard.hasMore
       THEN UNCHANGED <<dashboard, runs>>
       ELSE IF nearBottom
            THEN loadMoreSpaces
            ELSE UNCHANGED <<dashboard, runs>>
    /\ UNCHANGED <<service, inFlight, app>>

\* loadMoreSpaces after its await, its finally block included
loadMoreSpaces_resolves(r, length, more) ==
    /\ runs[r].kind = "loadMoreSpaces"
    /\ runs[r].pc = "getSpaces"
    /\ dashboard' =
          IF length > 0
          THEN [dashboard EXCEPT
                   !.allSpaces = @ \o Page(runs[r].epoch, runs[r].offset, length),
                   !.currentOffset = @ + length,
                   !.hasMore = more,
                   !.isLoading = FALSE]
          ELSE [dashboard EXCEPT !.hasMore = FALSE, !.isLoading = FALSE]
    /\ runs' = [runs EXCEPT ![r] = settle(@, length, "resolved")]
    /\ UNCHANGED <<service, inFlight, app>>

\* loadMoreSpaces when getSpaces fails: catch shows the message, finally runs
loadMoreSpaces_rejects(r) ==
    /\ runs[r].kind = "loadMoreSpaces"
    /\ runs[r].pc = "getSpaces"
    /\ dashboard' = [dashboard EXCEPT !.isLoading = FALSE]
    /\ runs' = [runs EXCEPT ![r] = settle(@, Absent, "rejected")]
    /\ UNCHANGED <<service, inFlight, app>>

InitPages ==
    /\ InitApiService
    /\ dashboard \in {Dashboard(Simplified) @@ Pagination(spacesContent) :
                         spacesContent \in BOOLEAN}
    /\ app = App(WithLoadHandler, "complete", TRUE)

NextPages ==
    \/ loadSpaces_called
    \/ loadMoreSpaces_called
    \/ \E nearBottom \in BOOLEAN : scroll(nearBottom)
    \/ \E r \in 1..Len(runs), length \in PageLengths, more \in BOOLEAN :
          \/ loadSpaces_resolves(r, length, more)
          \/ loadMoreSpaces_resolves(r, length, more)
    \/ \E r \in 1..Len(runs) :
          \/ loadSpaces_rejects(r)
          \/ loadMoreSpaces_rejects(r)

SpecPages == InitPages /\ [][NextPages]_vars

\* the calls of `kind` that wait for their page
waitingCalls(kind) ==
    {r \in 1..Len(runs) : runs[r].kind = kind /\ runs[r].pc = "getSpaces"}

\* the calls that settle in this step
settling == {r \in 1..Len(runs) : runs[r].pc = "getSpaces" /\ runs'[r].pc = "done"}

\* C23: at most one loadMoreSpaces request is in flight; a page request is
\* issued only while hasMore is true (and isLoading false); a loadMoreSpaces
\* that receives an empty page leaves hasMore false; and when a loadMoreSpaces
\* settles, resolved or rejected, isLoading is false again
C23_InfiniteScroll ==
    [][/\ Cardinality(waitingCalls("loadMoreSpaces")') <= 1
       /\ (Len(runs') > Len(runs) /\ runs'[Len(runs')].kind = "loadMoreSpaces")
             => (dashboard.hasMore /\ ~dashboard.isLoading)
       /\ \A r \in settling :
             runs[r].kind = "loadMoreSpaces"
                => /\ ~dashboard'.isLoading
                   /\ (runs'[r].length = 0 => ~dashboard'.hasMore)]_vars

\* a loadMoreSpaces has received an empty page, another has failed, and the
\* list holds a page that a third one appended
C23_Witness ==
    /\ \E r \in 1..Len(runs) :
          runs[r].kind = "loadMoreSpaces" /\ runs[r].settled = "resolved"
             /\ runs[r].length = 0
    /\ \E r \in 1..Len(runs) :
          runs[r].kind = "loadMoreSpaces" /\ runs[r].settled = "rejected"
    /\ \E r \in 1..Len(runs) :
          runs[r].kind = "loadMoreSpaces" /\ runs[r].settled = "resolved"
             /\ runs[r].length > 0
    /\ ~dashboard.isLoading

\* C30: whenever no spaces request is in flight, currentOffset is the number
\* of spaces in allSpaces, and every space in allSpaces comes from a page that
\* was requested after the most recent reset of loadSpaces
C30_PaginationConsistent ==
    (waitingCalls("loadSpaces") \cup waitingCalls("loadMoreSpaces") = {})
       => /\ dashboard.currentOffset = Len(dashboard.allSpaces)
          /\ \A i \in 1..Len(dashboard.allSpaces) :
                dashboard.allSpaces[i].requestedAfter = dashboard.resets

---------------------------------------------------------------------------
(* Utils.debounce (utils.js): the function it returns keeps one variable,
   timeout, and schedules `later` with the arguments of each call. The page's
   timers fire when they are due. App.setupEventListeners debounces the filter
   handlers by 300 ms. *)

FilterWait == 300
TickStep == 100
MaxNow == 1000
MaxDebounced == 3

\* what the handlers may be called with
EventArgs == {"status", "limit"}

\* the page's clock and pending timers, the closure of one debounced function,
\* and as history the calls made to it and the runs of func
Timers ==
    [now |-> 0,
     timers |-> {},
     nextHandle |-> 1,
     timeout |-> Absent,
     calls |-> <<>>,
     ran |-> <<>>]

\* clearTimeout(handle): an unknown, fired or undefined handle does nothing
clearTimeout(timers, handle) == {t \in timers : t.handle # handle}

\* setTimeout(later, wait) at `now`, `later` holding args
setTimeout(timers, handle, now, wait, args) ==
    timers \cup {[handle |-> handle, due |-> now + wait, args |-> args]}

\* the variant of the debounced function that does not clear the pending timer
executedFunction_keepsPending(page, wait, args) ==
    [page EXCEPT
        !.timers = setTimeout(page.timers, page.nextHandle, page.now, wait, args),
        !.timeout = page.nextHandle,
        !.nextHandle = @ + 1,
        !.calls = Append(@, [at |-> page.now, args |-> args])]

\* executedFunction(...args): clearTimeout(timeout); timeout = setTimeout(later, wait)
executedFunction(page, wait, args) ==
    [page EXCEPT
        !.timers = setTimeout(clearTimeout(page.timers, page.timeout),
                              page.nextHandle, page.now, wait, args),
        !.timeout = page.nextHandle,
        !.nextHandle = @ + 1,
        !.calls = Append(@, [at |-> page.now, args |-> args])]

\* later(): clearTimeout(timeout); func(...args). The run is recorded with the
\* number of calls made so far
later(page, timer) ==
    [page EXCEPT
        !.timers = clearTimeout(page.timers \ {timer}, page.timeout),
        !.ran = Append(@, [at |-> page.now, args |-> timer.args,
                           after |-> Len(page.calls)])]

\* the frame of the steps of the page's timers
timersFrame == UNCHANGED <<service, dashboard, inFlight, runs>>

\* a 'change' event reaches the debounced handler
debounced_called(args) ==
    /\ Len(app.calls) < MaxDebounced
    /\ app' = executedFunction(app, FilterWait, args)
    /\ timersFrame

\* a timer that is due fires
timer_fires(timer) ==
    /\ timer.due = app.now
    /\ app' = later(app, timer)
    /\ timersFrame

\* the next instant of the page: a step later, or when the next timer is due
nextInstant(page) ==
    LET dues == {t.due : t \in page.timers}
        soon == {d \in dues : d < page.now + TickStep}
    IN IF soon = {}
       THEN page.now + TickStep
       ELSE CHOOSE d \in soon : \A e \in soon : d <= e

\* time passes, once the timers that are due have fired
tick ==
    /\ app.now < MaxNow
    /\ \A t \in app.timers : t.due > app.now
    /\ app' = [app EXCEPT !.now = nextInstant(app)]
    /\ timersFrame

InitDebounce ==
    /\ InitApiService
    /\ dashboard = Dashboard(Simplified)
    /\ app = App(WithLoadHandler, "complete", TRUE) @@ Timers

NextDebounce ==
    \/ \E args \in EventArgs : debounced_called(args)
    \/ \E timer \in app.timers : timer_fires(timer)
    \/ tick

SpecDebounce == InitDebounce /\ [][NextDebounce]_vars

\* the runs of func that followed call i and no later call
runsAfter(i) == {j \in 1..Len(app.ran) : app.ran[j].after = i}

\* call i is followed by another less than wait ms later
followedSoon(i) ==
    i < Len(app.calls) /\ app.calls[i + 1].at - app.calls[i].at < FilterWait

\* call i ends a series: no call follows it within wait ms, and wait ms have passed
endsSeries(i) ==
    /\ i = Len(app.calls) \/ app.calls[i + 1].at - app.calls[i].at > FilterWait
    /\ app.now > app.calls[i].at + FilterWait

\* C24: a call followed by another less than wait ms later never makes func
\* run; the last call of a series makes func run exactly once; and every run
\* of func comes wait ms after the latest call made before it, with that
\* call's arguments
C24_DebounceRunsOnce ==
    /\ \A i \in 1..Len(app.calls) :
          /\ followedSoon(i) => runsAfter(i) = {}
          /\ endsSeries(i) => Cardinality(runsAfter(i)) = 1
    /\ \A j \in 1..Len(app.ran) :
          /\ app.ran[j].after \in 1..Len(app.calls)
          /\ app.ran[j].at = app.calls[app.ran[j].after].at + FilterWait
          /\ app.ran[j].args = app.calls[app.ran[j].after].args

\* a series of three calls, each less than wait ms after the previous one and
\* with changing arguments, and func has run after it
C24_Witness ==
    /\ Len(app.calls) = 3
    /\ followedSoon(1) /\ followedSoon(2)
    /\ app.calls[1].at < app.calls[2].at
    /\ app.calls[2].args # app.calls[3].args
    /\ endsSeries(3)
    /\ runsAfter(3) # {}

---------------------------------------------------------------------------
(* Auto-refresh (part_005, utils.js): App arms a periodic interval and, when
   the page becomes visible again, a timeout; both call dashboard.refreshAll.
   part_005 arms the interval in startAutoRefresh, utils.js at the end of
   start(), and only part_005 defines toggleAutoRefresh, startAutoRefresh and
   stopAutoRefresh. *)

WithToggle == "part_005"
WithInterval == "utils.js"
AutoRefreshRevisions == {WithToggle, WithInterval}

MaxHandles == 4

\* new App(): utils.js defines neither autoRefreshEnabled nor
\* visibilityRefreshTimeout (undefined there). listening says that setupEventListeners has run;
\* stopped and refreshedBy are history: whether stopAutoRefresh or 'offline'
\* was the last to act on auto-refresh, and what has called refreshAll since
AutoRefresh(revision) ==
    [revision |-> revision,
     isInitialized |-> FALSE,
     listening |-> FALSE,
     autoRefreshEnabled |-> IF revision = WithToggle THEN "false" ELSE "undefined",
     autoRefreshInterval |-> Absent,
     visibilityRefreshTimeout |-> Absent,
     hidden |-> FALSE,
     timers |-> {},
     nextHandle |-> 1,
     stopped |-> FALSE,
     refreshedBy |-> {}]

\* ToBoolean(this.autoRefreshEnabled)
enabled(a) == a.autoRefreshEnabled = "true"

clearInterval(timers, handle) == clearTimeout(timers, handle)

\* setInterval / setTimeout of a callback that calls dashboard.refreshAll
armed(a, kind) == a.timers \cup {[handle |-> a.nextHandle, kind |-> kind]}

startAutoRefresh(a) ==
    [a EXCEPT !.autoRefreshEnabled = "true",
              !.timers = armed(a, "interval"),
              !.autoRefreshInterval = a.nextHandle,
              !.nextHandle = @ + 1,
              !.stopped = FALSE]

stopAutoRefresh(a) ==
    [a EXCEPT !.autoRefreshEnabled = "false",
              !.timers = clearTimeout(clearInterval(a.timers, a.autoRefreshInterval),
                                      a.visibilityRefreshTimeout),
              !.autoRefreshInterval = Absent,
              !.visibilityRefreshTimeout = Absent,
              !.stopped = TRUE,
              !.refreshedBy = {}]

\* dashboard.refreshAll() called from `source`
refreshedFrom(a, source) == [a EXCEPT !.refreshedBy = @ \cup {source}]

\* the end of App.start, after its awaits
start_finishes ==
    /\ ~app.isInitialized
    /\ app' = IF app.revision = WithInterval
              THEN [app EXCEPT !.listening = TRUE,
                               !.isInitialized = TRUE,
                               !.timers = armed(app, "interval"),
                               !.autoRefreshInterval = app.nextHandle,
                               !.nextHandle = @ + 1]
              ELSE [app EXCEPT !.listening = TRUE, !.isInitialized = TRUE]
    /\ timersFrame

\* Ctrl+A, or the button of the page; a TypeError where App has no such method
toggleAutoRefresh ==
    /\ app.nextHandle <= MaxHandles
    /\ app' = IF app.revision = WithInterval
              THEN app
              ELSE IF enabled(app)
                   THEN stopAutoRefresh(app)
                   ELSE startAutoRefresh(app)
    /\ timersFrame

\* the 'offline' listener: in utils.js this.stopAutoRefresh is undefined and the
\* call raises a TypeError after the message
offline ==
    /\ app.listening
    /\ app' = IF app.revision = WithInterval
              THEN [app EXCEPT !.stopped = TRUE, !.refreshedBy = {}]
              ELSE stopAutoRefresh(app)
    /\ timersFrame

\* the 'online' listener
online ==
    /\ app.listening
    /\ app' = IF enabled(app)
              THEN refreshedFrom(app, "online")
              ELSE app
    /\ timersFrame

\* the 'visibilitychange' listener, document.hidden having become `hidden`
visibilitychange(hidden) ==
    /\ app.listening
    /\ app.nextHandle <= MaxHandles
    /\ hidden # app.hidden
    /\ LET a == [app EXCEPT !.hidden = hidden]
           cleared == IF a.visibilityRefreshTimeout # Absent
                      THEN [a EXCEPT !.timers = clearTimeout(@, a.visibilityRefreshTimeout)]
                      ELSE a
       IN app' = IF ~hidden /\ a.isInitialized
                 THEN IF enabled(a)
                      THEN [cleared EXCEPT !.timers = armed(cleared, "timeout"),
                                           !.visibilityRefreshTimeout = a.nextHandle,
                                           !.nextHandle = @ + 1]
                      ELSE cleared
                 ELSE a
    /\ timersFrame

\* the callback of the interval
interval_fires(timer) ==
    /\ timer.kind = "interval"
    /\ app' = IF ~app.hidden THEN refreshedFrom(app, "interval") ELSE app
    /\ timersFrame

\* the callback of the visibility timeout
timeout_fires(timer) ==
    /\ timer.kind = "timeout"
    /\ app' = refreshedFrom([app EXCEPT !.timers = @ \ {timer}], "timeout")
    /\ timersFrame

InitAutoRefresh ==
    /\ InitApiService
    /\ dashboard = Dashboard(Simplified)
    /\ app \in {AutoRefresh(revision) : revision \in AutoRefreshRevisions}

NextAutoRefresh ==
    \/ start_finishes
    \/ toggleAutoRefresh
    \/ offline
    \/ online
    \/ \E hidden \in BOOLEAN : visibilitychange(hidden)
    \/ \E timer \in app.timers : interval_fires(timer)
    \/ \E timer \in app.timers : timeout_fires(timer)

SpecAutoRefresh == InitAutoRefresh /\ [][NextAutoRefresh]_vars

intervalArmed == \E timer \in app.timers : timer.kind = "interval"

\* C22: the periodic interval is armed exactly while autoRefreshEnabled is
\* true; and from stopAutoRefresh or an 'offline' event until auto-refresh is
\* started again, neither the interval nor the visibility timeout has called
\* dashboard.refreshAll
C22_TimersFollowAutoRefresh ==
    /\ intervalArmed <=> enabled(app)
    /\ app.stopped => app.refreshedBy \cap {"interval", "timeout"} = {}

====
